---- MODULE Spec2Model ----
(***************************************************************************)
(* The catalog acquisition and download-resolution engine of node-ipslib   *)
(* (src/lib/downloads.js and its IPS4 subclass src/lib/v4/downloads-ips4.js)*)
(* as a state machine: the in-memory file cache, the persisted file-cache  *)
(* artifact, the destination folder, and the position of each asynchronous *)
(* call (getFiles, download, the IPS4 _downloadFile).                      *)
(***************************************************************************)
EXTENDS Integers, Sequences, FiniteSets, TLC

\* ---------------------------------------------------------------- bounds
MaxCat == 1
MaxId == 2
MaxPageLen == 1
MaxPages == 2
MaxTotal == 3
MaxOps == 3
MaxDownloads == 1
MaxCatList == 2
MaxSeed == 2
MaxBatch == 2
MaxText == 3
MaxName == 3
MaxDelay == 2
MaxLogins == 3
MaxGap == 3

CatIds == 1..MaxCat
Ids == 1..MaxId
Procs == {1, 2}

\* ------------------------------------------------------- catalog records
\* description: "" (empty), "sum" (the listing's summary), "full" (the
\* detail page's text).  info / filename: "undef" when the property is
\* absent.  category: 0 when the property is absent.
\* the files property of a record, absent until getFileDetails sets it
NoFiles == <<"undef">>
Rec(i, d) ==
    [id |-> i, description |-> d, info |-> "undef", filename |-> "undef", category |-> 0,
     files |-> NoFiles]

Descriptions == {"", "sum", "full"}
ListingRecs == {Rec(i, d) : i \in Ids, d \in {"", "sum"}}

RECURSIVE SeqsUpTo(_, _)
SeqsUpTo(S, n) ==
    IF n = 0 THEN {<<>>}
    ELSE LET shorter == SeqsUpTo(S, n - 1)
         IN  shorter \cup {Append(s, x) : s \in {t \in shorter : Len(t) = n - 1}, x \in S}

PageContents == SeqsUpTo(ListingRecs, MaxPageLen)

\* the pages of a listing sorted by name: distinct records in ascending order
Ascending(s) == \A i \in 1..(Len(s) - 1) : s[i].id < s[i + 1].id
SortedPages == {s \in SeqsUpTo({Rec(i, "sum") : i \in Ids}, MaxPageLen) : Ascending(s)}

RECURSIVE Flatten(_)
Flatten(ss) == IF ss = <<>> THEN <<>> ELSE Head(ss) \o Flatten(Tail(ss))

IdsOf(s) == {s[i].id : i \in 1..Len(s)}
NoDup(s) == \A i, j \in 1..Len(s) : s[i].id = s[j].id => i = j

\* ------------------------------------------------------------ the caches
NoEntry == [present |-> FALSE, files |-> <<>>]
Entry(s) == [present |-> TRUE, files |-> s]
EmptyMap == [c \in CatIds |-> NoEntry]
\* this._fileCache: undefined until the artifact was parsed once
CacheUndefined == [loaded |-> FALSE, map |-> EmptyMap]
\* the file-cache artifact on disk
DiskAbsent == [exists |-> FALSE, map |-> EmptyMap]

\* JSON.stringify / JSON.parse of the cache mapping: only the categories that
\* have an array are written; a record's absent properties stay absent and
\* its category property, once attached in memory, is written with it.
JsonStringify(fc) == [exists |-> TRUE, map |-> fc.map]
JsonParse(dk) == [loaded |-> TRUE, map |-> dk.map]

WithCategory(s, c) == [i \in 1..Len(s) |-> [s[i] EXCEPT !.category = c]]

\* Downloads.prototype._getFileCache: the in-memory cache after the call ...
GetFileCacheMem(fc, dk, c) ==
    IF fc.loaded /\ fc.map[c].present
    THEN [fc EXCEPT !.map[c].files = WithCategory(@, c)]
    ELSE IF ~dk.exists
    THEN fc
    ELSE LET parsed == JsonParse(dk)
             filled == IF parsed.map[c].present THEN parsed
                       ELSE [parsed EXCEPT !.map[c] = Entry(<<>>)]
         IN  [filled EXCEPT !.map[c].files = WithCategory(@, c)]

\* ... and the array it returns
GetFileCacheRet(fc, dk, c) ==
    IF (fc.loaded /\ fc.map[c].present) \/ dk.exists
    THEN GetFileCacheMem(fc, dk, c).map[c].files
    ELSE <<>>

\* Downloads.prototype._saveFileCache(categoryId, files) dereferences
\* this._fileCache: it throws a TypeError while the cache is still undefined
SaveThrows(fc) == ~fc.loaded
SaveMem(fc, c, files) == [fc EXCEPT !.map[c] = Entry(files)]

\* ------------------------------------------------- category references
\* the kind of value passed as `cat` and the cache key it stands for: an
\* object with url ("obj") or without ("objNoUrl"), an integer ("int"), a
\* non-integer number ("float", its key taken from the same keys), 0, NaN,
\* null, undefined, '', a non-empty string ("str"), false, true
CatRef(k, i) == [kind |-> k, id |-> i]
FalsyKinds == {"null", "undefined", "emptystr", "false", "zero", "nan"}
CatRefs ==
    {CatRef(k, 0) : k \in FalsyKinds \cup {"str", "true", "objNoUrl"}}
        \cup {CatRef(k, c) : k \in {"obj", "int", "float"}, c \in CatIds}

\* one reference of each outcome of the checks, and each category both ways
SomeCatRefs ==
    {CatRef("undefined", 0), CatRef("objNoUrl", 0)}
        \cup {CatRef(k, c) : k \in {"obj", "int"}, c \in CatIds}

Falsy(cat) == cat.kind \in FalsyKinds
IsObject(cat) == cat.kind \in {"obj", "objNoUrl"}
IsNumber(cat) == cat.kind \in {"int", "float", "zero", "nan"}
HasUrl(cat) == cat.kind = "obj"

\* a variant of the checks in which the test of line 119 answers like the
\* test of line 106 instead of throwing, against which the statement on
\* rejected references (C10) is shown to depend on that test
CatVerdictLenient(cat) ==
    IF Falsy(cat) THEN "empty"
    ELSE IF IsObject(cat) /\ ~HasUrl(cat) THEN "invalid"
    ELSE IF ~IsObject(cat) /\ ~IsNumber(cat) THEN "empty"
    ELSE "ok"

\* the checks of getFiles, lines 106-121
CatVerdict(cat) ==
    IF Falsy(cat) THEN "empty"
    ELSE IF IsObject(cat) /\ ~HasUrl(cat) THEN "invalid"
    ELSE IF ~IsObject(cat) /\ ~IsNumber(cat) THEN "invalid"
    ELSE "ok"

\* a variant of the merge that puts the fetched records first, against which
\* the statement on the stored order (C28) is shown to depend on the order of
\* line 138
MergeFreshFirst(files, result) ==
    IF files # <<>>
    THEN LET Keep(f) == f.id \notin IdsOf(result)
         IN  result \o SelectSeq(files, Keep)
    ELSE result

\* the merge of getFiles, lines 130-141
Merge(files, result) ==
    IF files # <<>>
    THEN LET Keep(f) == f.id \notin IdsOf(result)
         IN  SelectSeq(files, Keep) \o result
    ELSE result

\* a variant of the test of line 125 that never serves from the cache,
\* against which the statement on cached reads (C12) is shown to depend on it
ServeFromCacheNever(force, files) == FALSE

\* the test of line 125: the cached records are returned as they are
ServeFromCache(force, files) == ~force /\ files # <<>>

\* two variants of the stop test, against which the statements on paging
\* (C5, C6) are shown to depend on it: one page too far, and firstPageOnly
\* ignored
LastPageOneTooFar(first, page, numPages) == first \/ page > numPages
LastPageIgnoringFirst(first, page, numPages) == page >= numPages

\* the stop test of _fetchPage, line 391
LastPage(first, page, numPages) == first \/ page >= numPages

\* ------------------------------------------------------ the fuzzy search
\* A string is a sequence of characters; a regular expression is its source,
\* a sequence of literal characters and of wildcards ".*?".
UpperCase == <<"A", "B", "C", "D", "E", "F", "G", "H", "I", "J", "K", "L", "M",
               "N", "O", "P", "Q", "R", "S", "T", "U", "V", "W", "X", "Y", "Z">>
LowerCase == <<"a", "b", "c", "d", "e", "f", "g", "h", "i", "j", "k", "l", "m",
               "n", "o", "p", "q", "r", "s", "t", "u", "v", "w", "x", "y", "z">>
Digits == {"0", "1", "2", "3", "4", "5", "6", "7", "8", "9"}
LineTerminators == {"\n", "\r"}
WhiteSpace == {" ", "\t"} \cup LineTerminators
AnyChars == ".*?"

\* the flag i: characters are compared after case folding
Folded ==
    [ch \in {UpperCase[k] : k \in 1..Len(UpperCase)} |->
        LowerCase[CHOOSE k \in 1..Len(UpperCase) : UpperCase[k] = ch]]
Lower(ch) == IF ch \in DOMAIN Folded THEN Folded[ch] ELSE ch

\* the complement of the class [^a-z0-9\s_-] under the flag i
KeptChars ==
    {LowerCase[k] : k \in 1..Len(LowerCase)} \cup Digits \cup WhiteSpace \cup {"_", "-"}
Kept(ch) == Lower(ch) \in KeptChars

Cleaned(query) == SelectSeq(query, Kept)

\* replace(/\s+/, '.*?') has no flag g: the first run of white space, and
\* only the first, becomes the wildcard
FirstSpace(s) ==
    IF \E k \in 1..Len(s) : s[k] \in WhiteSpace
    THEN CHOOSE k \in 1..Len(s) :
             s[k] \in WhiteSpace /\ \A j \in 1..(k - 1) : s[j] \notin WhiteSpace
    ELSE 0
RunEnd(s, from) ==
    CHOOSE e \in from..Len(s) :
        /\ \A j \in from..e : s[j] \in WhiteSpace
        /\ e = Len(s) \/ s[e + 1] \notin WhiteSpace

getSearchRegex(query) ==
    LET c == Cleaned(query)
        k == FirstSpace(c)
    IN  IF k = 0 THEN c
        ELSE SubSeq(c, 1, k - 1) \o <<AnyChars>> \o SubSeq(c, RunEnd(c, k) + 1, Len(c))

\* the expression matches a part of the text that starts at pos; the
\* wildcard stands for any characters but line terminators
RECURSIVE MatchAt(_, _, _)
MatchAt(re, text, pos) ==
    IF re = <<>> THEN TRUE
    ELSE IF Head(re) = AnyChars
         THEN \E n \in pos..(Len(text) + 1) :
                  /\ \A k \in pos..(n - 1) : text[k] \notin LineTerminators
                  /\ MatchAt(Tail(re), text, n)
         ELSE /\ pos <= Len(text)
              /\ Lower(text[pos]) = Lower(Head(re))
              /\ MatchAt(Tail(re), text, pos + 1)

RegexTestAnchored(re, text) == MatchAt(re, text, 1)

\* regex.test(text): a match may start anywhere
RegexTest(re, text) == \E pos \in 1..(Len(text) + 1) : MatchAt(re, text, pos)

matchFile(query, title, description) ==
    LET regex == getSearchRegex(query)
    IN  RegexTest(regex, title) \/ RegexTest(regex, description)

\* file.title and file.description as strings: the records of the model carry
\* an id and the kind of their description, the title goes with the id
TitleOf(i) ==
    IF i = 1 THEN <<"F", "u", "n", "n", "y", " ", "P", "i", "c", "s">>
    ELSE IF i = 2
         THEN <<"S", "e", "r", "i", "o", "u", "s", " ", "D", "o", "c", "u", "m", "e", "n", "t", "s">>
         ELSE <<"F", "u", "n", "n", "y", " ", "P", "i", "c", "t", "u", "r", "e", "s">>
DescriptionText(d) ==
    IF d = "" THEN <<>>
    ELSE IF d = "sum" THEN <<"s", "u", "m">>
         ELSE <<"f", "u", "l", "l", "\n", "t", "e", "x", "t">>
Accepts(query, file) ==
    matchFile(query, TitleOf(file.id), DescriptionText(file.description))

FindLast(files, query) ==
    IF \E k \in 1..Len(files) : Accepts(query, files[k])
    THEN <<files[CHOOSE k \in 1..Len(files) :
                     /\ Accepts(query, files[k])
                     /\ \A j \in (k + 1)..Len(files) : ~Accepts(query, files[j])]>>
    ELSE <<>>

\* _.find(files, matchFile(query)): the one record found, or nothing
Find(files, query) ==
    IF \E k \in 1..Len(files) : Accepts(query, files[k])
    THEN <<files[CHOOSE k \in 1..Len(files) :
                     /\ Accepts(query, files[k])
                     /\ \A j \in 1..(k - 1) : ~Accepts(query, files[j])]>>
    ELSE <<>>

\* _.filter(files, matchFile(query))
FilterFiles(files, query) ==
    LET Keep(file) == Accepts(query, file)
    IN  SelectSeq(files, Keep)

\* ---------------------------------------- the name of the file written
\* the word w stands in the text at position i, whatever the case
StartsAt(w, text, i) ==
    /\ i >= 1 /\ i + Len(w) - 1 <= Len(text)
    /\ \A k \in 1..Len(w) : Lower(text[i + k - 1]) = Lower(w[k])

FilenameKey == <<"f", "i", "l", "e", "n", "a", "m", "e">>
Quote == "\""
QuotedKey == FilenameKey \o <<"=", Quote>>

\* /filename="([^"]+)"/i matches at position i
QuotedAt(h, i) ==
    /\ StartsAt(QuotedKey, h, i)
    /\ i + Len(QuotedKey) <= Len(h) /\ h[i + Len(QuotedKey)] # Quote
    /\ \E e \in (i + Len(QuotedKey) + 1)..Len(h) : h[e] = Quote
QuotedName(h) ==
    LET i == CHOOSE k \in 1..Len(h) : QuotedAt(h, k) /\ \A j \in 1..(k - 1) : ~QuotedAt(h, j)
        from == i + Len(QuotedKey)
        e == CHOOSE k \in (from + 1)..Len(h) :
                 h[k] = Quote /\ \A j \in (from + 1)..(k - 1) : h[j] # Quote
    IN  SubSeq(h, from, e - 1)

\* header.substr(header.toLowerCase().indexOf('filename')): from the key on,
\* or the last character when the header does not hold the key
FromKey(h) ==
    IF \E k \in 1..Len(h) : StartsAt(FilenameKey, h, k)
    THEN SubSeq(h, CHOOSE k \in 1..Len(h) :
                       StartsAt(FilenameKey, h, k) /\ \A j \in 1..(k - 1) : ~StartsAt(FilenameKey, h, j),
                Len(h))
    ELSE SubSeq(h, Len(h), Len(h))
Trim(t) ==
    IF \A k \in 1..Len(t) : t[k] \in WhiteSpace THEN <<>>
    ELSE SubSeq(t, CHOOSE k \in 1..Len(t) :
                       t[k] \notin WhiteSpace /\ \A j \in 1..(k - 1) : t[j] \in WhiteSpace,
                CHOOSE k \in 1..Len(t) :
                       t[k] \notin WhiteSpace /\ \A j \in (k + 1)..Len(t) : t[j] \in WhiteSpace)
\* replace(/\s/g, '.') and the complement of the class [^\w\d\.\-]
Dotted(t) == [k \in 1..Len(t) |-> IF t[k] \in WhiteSpace THEN "." ELSE t[k]]
NameChars == {LowerCase[k] : k \in 1..Len(LowerCase)} \cup Digits \cup {"_", ".", "-"}
NameChar(ch) == Lower(ch) \in NameChars

\* the filename _prepareDownload resolves with, lines 427-434
DispositionFilename(h) ==
    IF \E k \in 1..Len(h) : QuotedAt(h, k) THEN QuotedName(h)
    ELSE SelectSeq(Dotted(Trim(FromKey(h))), NameChar)

\* path.resolve(destFolder, filename) on a POSIX system; a path is the
\* sequence of its segments from the root
RECURSIVE Split(_)
Split(t) ==
    IF \A k \in 1..Len(t) : t[k] # "/" THEN <<t>>
    ELSE LET k == CHOOSE n \in 1..Len(t) : t[n] = "/" /\ \A j \in 1..(n - 1) : t[j] # "/"
         IN  <<SubSeq(t, 1, k - 1)>> \o Split(SubSeq(t, k + 1, Len(t)))
RECURSIVE Walk(_, _)
Walk(base, segs) ==
    IF segs = <<>> THEN base
    ELSE IF Head(segs) \in {<<>>, <<".">>} THEN Walk(base, Tail(segs))
    ELSE IF Head(segs) = <<".", ".">>
         THEN Walk(IF base = <<>> THEN <<>> ELSE SubSeq(base, 1, Len(base) - 1), Tail(segs))
         ELSE Walk(Append(base, Head(segs)), Tail(segs))
PathResolve(folder, name) ==
    Walk(IF name # <<>> /\ name[1] = "/" THEN <<>> ELSE folder, Split(name))

\* ------------------------------------------------------ the page indicator
\* The text of the page jump link, "Page X of Y" where the listing has one,
\* and what line 364 of _fetchPage reads from it.
DigitChars == <<"0", "1", "2", "3", "4", "5", "6", "7", "8", "9">>
DigitValue(ch) == (CHOOSE k \in 1..Len(DigitChars) : DigitChars[k] = ch) - 1

\* parseInt(digits, 10) of a run of decimal digits
RECURSIVE ParseInt(_)
ParseInt(digits) ==
    IF digits = <<>> THEN 0
    ELSE ParseInt(SubSeq(digits, 1, Len(digits) - 1)) * Len(DigitChars)
         + DigitValue(digits[Len(digits)])

\* the end of the run of digits that position i lies in
DigitRunEnd(text, i) ==
    CHOOSE j \in i..Len(text) :
        /\ \A k \in i..j : text[k] \in Digits
        /\ j = Len(text) \/ text[j + 1] \notin Digits

OfWord == <<" ", "o", "f", " ">>

\* /\d+ of \d+/i matches at position i
IndicatorAt(text, i) ==
    /\ i \in 1..Len(text)
    /\ text[i] \in Digits
    /\ LET e == DigitRunEnd(text, i)
       IN  /\ StartsAt(OfWord, text, e + 1)
           /\ e + Len(OfWord) + 1 <= Len(text)
           /\ text[e + Len(OfWord) + 1] \in Digits

\* /\d+ of \d+/i.test(pages)
HasIndicator(text) == \E i \in 1..Len(text) : IndicatorAt(text, i)

\* parseInt(pages.match(/\d+ of (\d+)/i)[1], 10): the leftmost match, its
\* group taking every digit that follows
PagesShown(text) ==
    LET i == CHOOSE k \in 1..Len(text) :
                 IndicatorAt(text, k) /\ \A m \in 1..(k - 1) : ~IndicatorAt(text, m)
        s == DigitRunEnd(text, i) + Len(OfWord) + 1
    IN  ParseInt(SubSeq(text, s, DigitRunEnd(text, s)))

\* a variant that expects a further page when the indicator cannot be read
NumPagesExpectsMore(text) == IF HasIndicator(text) THEN PagesShown(text) ELSE 2

\* numPages of line 364
NumPages(text) == IF HasIndicator(text) THEN PagesShown(text) ELSE 1

\* the indicator of the first page of a listing of n pages
IndicatorOf(n) == <<"1">> \o OfWord \o <<DigitChars[n + 1]>>

\* ------------------------------------------------------------- state
VARIABLES
    fileCache,   \* this._fileCache
    disk,        \* the file-cache artifact
    gf,          \* the getFiles calls, by caller
    ipsOpts,     \* this._opts as far as the engine has read it
    dl,          \* the download call
    v4,          \* the IPS4 _downloadFile call
    destFiles,   \* names of the files in the destination folder
    nOps,        \* API calls started so far
    nDownloads,  \* download calls started so far
    categoryCache, \* this._categoryCache
    catDisk,     \* the category-cache artifact
    gc,          \* the getCategories call
    batch,       \* the download call on an array of records
    mt,          \* one application of the function matchFile(query) returns
    find,        \* the last findFile or findFiles call that settled
    wr,          \* one response handed from _prepareDownload to _streamFile
    dly,         \* the delay between two pages of one getFiles call
    lg           \* one call of the login operation of the board

catVars == <<categoryCache, catDisk, gc>>
findVars == <<mt, find>>
utilVars == <<wr, dly, lg>>
auxVars == <<catVars, batch, findVars, utilVars>>
vars == <<fileCache, disk, gf, ipsOpts, dl, v4, destFiles, nOps, nDownloads, auxVars>>

\* one application of the function matchFile(query) returns: the query, the
\* title and the description of the file it is applied to, and its answer
MtIdle == [pc |-> "idle", query |-> <<>>, title |-> <<>>, description |-> <<>>,
           accepted |-> FALSE]

\* the last findFile or findFiles call that settled: its query and what it
\* resolved with (for findFile the one record found, or nothing)
FindIdle == [pc |-> "idle", kind |-> "none", query |-> <<>>, result |-> <<>>]

\* one response with a content-disposition header: the header, the filename
\* _prepareDownload takes from it, the destination folder and the path
\* _streamFile opens for writing
WrIdle == [pc |-> "idle", header |-> <<>>, filename |-> <<>>, destFolder |-> <<>>,
           dest |-> <<>>]

\* the delay of line 394: the options of the caller, their values after the
\* defaults of lines 111-112, and the delay chosen
DlyIdle == [pc |-> "idle", given |-> <<-1, -1>>, minDelay |-> 0, maxDelay |-> 0, delay |-> 0]

\* a login call: which implementation, where it stands, whether the
\* credentials were posted, and what it resolved with; and (history) the
\* number of calls and of posts of the credentials so far
LgIdle == [pc |-> "idle", impl |-> "none", posted |-> FALSE, outcome |-> "none",
           value |-> "none", error |-> "", session |-> FALSE, calls |-> 0, posts |-> 0]

\* a download call on an array: the ids given, where each record's
\* _downloadFile promise stands ("waiting": not called yet; "resolving": a
\* request of its resolution is in flight; "streaming"; "done"; "failed"),
\* how the call settled and how often it saved the cache
BatchIdle ==
    [pc |-> "idle", ids |-> <<>>, phase |-> <<>>, outcome |-> "none", saves |-> 0]

\* a getCategories call: its option, how it settled, and (history) the
\* requests it made and whether the artifact existed when it started
GcIdle ==
    [pc |-> "idle", force |-> FALSE, outcome |-> "none", result |-> <<>>,
     requests |-> 0, diskExisted |-> FALSE]

\* the category lists a board index can show: category ids in page order
CatLists == SeqsUpTo(CatIds, MaxCatList)
CatMemoUndefined == [loaded |-> FALSE, list |-> <<>>]
CatDiskAbsent == [exists |-> FALSE, list |-> <<>>]

NoMerge == [valid |-> FALSE, cat |-> 0, force |-> FALSE, hadCache |-> FALSE, pages |-> <<>>]

\* a getFiles call: its arguments, the locals of getFiles and _fetchPage,
\* how it settled, and (history) what it requested and was answered
GfIdle ==
    [pc |-> "idle", cat |-> CatRef("null", 0), force |-> FALSE, first |-> FALSE,
     page |-> 0, items |-> <<>>, files |-> <<>>,
     outcome |-> "none", error |-> "", result |-> <<>>,
     before |-> <<>>, diskExisted |-> FALSE,
     reqs |-> <<>>, inflight |-> 0, totals |-> <<>>, pages |-> <<>>,
     prev |-> NoMerge, engine |-> "none", listing |-> 0, shown |-> <<>>,
     overlaps |-> FALSE, during |-> FALSE, loadedDuring |-> FALSE]

\* history: what the call that just ended merged, when it was a refresh
PrevMerge(call) ==
    IF call.pc = "done" /\ call.outcome = "resolved" /\ call.reqs # <<>>
    THEN [valid |-> TRUE, cat |-> call.cat.id, force |-> call.force,
          hadCache |-> call.before # <<>>, pages |-> call.pages]
    ELSE NoMerge

DlIdle ==
    [pc |-> "idle", cat |-> 0, id |-> 0, allFiles |-> FALSE,
     outcome |-> "none", error |-> "", filename |-> "undef",
     url |-> "undef", overviews |-> 0, requests |-> 0, logins |-> 0,
     existed |-> FALSE, wrote |-> FALSE, consumed |-> FALSE, debugDump |-> FALSE,
     answer |-> "none", wanted |-> "undef", listed |-> <<>>, picked |-> 0,
     attached |-> TRUE]

V4Idle ==
    [pc |-> "idle", rec |-> Rec(1, ""), outcome |-> "none", error |-> "",
     attempts |-> 0, waits |-> 0, retries |-> 0, waitSecs |-> 0, delayMs |-> 0,
     debugDump |-> FALSE,
     url |-> "undef", overviews |-> 0, logins |-> 0, linkFrom |-> 0]

\* after construction (lines 15-20): no cache in memory; the artifact is
\* absent or was left by an earlier process.  The options the host passed
\* to the constructor (none, some without waitPeriod, some with it) are
\* fixed then, and enter the state when the engine first reads them.
Init ==
    /\ fileCache = CacheUndefined
    /\ disk \in {DiskAbsent, [exists |-> TRUE, map |-> EmptyMap]}
    /\ gf = [p \in Procs |-> GfIdle]
    /\ ipsOpts = "unread"
    /\ dl = DlIdle
    /\ v4 = V4Idle
    /\ destFiles \in SUBSET {"a.zip"}
    /\ nOps = 0
    /\ nDownloads = 0
    /\ categoryCache = CatMemoUndefined
    /\ catDisk = CatDiskAbsent
    /\ gc = GcIdle
    /\ batch = BatchIdle
    /\ mt = MtIdle
    /\ find = FindIdle
    /\ wr = WrIdle
    /\ dly = DlyIdle
    /\ lg = LgIdle

Quiet ==
    /\ \A p \in Procs : gf[p].pc \in {"idle", "done"}
    /\ dl.pc \in {"idle", "done"}

\* the listing _fetchPage requests. The base engine and IPS3 (line 344) take
\* the url of a category object and build the url of a bare id; IPS4
\* (downloads-ips4.js line 71) parses cat.url whatever cat is, which throws a
\* TypeError when cat is a number
FetchThrows(engine, cat) == engine = "ips4" /\ ~IsObject(cat)
ListingOf(cat) == cat.id

\* `cachedFile` of a download or getFileDetails call is an object of the
\* cache in memory (dl.attached) until the cache replaces its objects:
\* _getFileCache parses the artifact anew (lines 522-526), or the merge of
\* getFiles stores the fetched record of that id, or the fetch alone, in its
\* place (lines 130-142). From then on the call writes to an object the
\* cache no longer holds.
Reloads(fc, dk, c) == ~(fc.loaded /\ fc.map[c].present) /\ dk.exists
Replaces(call, c, files, result) ==
    call.cat = c /\ (files = <<>> \/ call.id \in IdsOf(result))
Detach(call, replaced) ==
    IF call.pc \notin {"idle", "done"} /\ replaced
    THEN [call EXCEPT !.attached = FALSE]
    ELSE call

\* the array `files` that getFiles read at its start holds the objects of
\* the cache, not copies: at the merge the record a running call is attached
\* to has the properties that call has assigned since
LiveFiles(call, fc, c, files) ==
    IF /\ call.pc # "idle" /\ call.attached /\ call.cat = c
       /\ call.id \in {files[k].id : k \in 1..Len(files)}
       /\ call.id \in {fc.map[c].files[k].id : k \in 1..Len(fc.map[c].files)}
    THEN LET k == CHOOSE j \in 1..Len(files) :
                      files[j].id = call.id /\ \A m \in 1..(j - 1) : files[m].id # call.id
             n == CHOOSE j \in 1..Len(fc.map[c].files) :
                      /\ fc.map[c].files[j].id = call.id
                      /\ \A m \in 1..(j - 1) : fc.map[c].files[m].id # call.id
         IN  [files EXCEPT ![k] = fc.map[c].files[n]]
    ELSE files

\* what an assignment to a property of `cachedFile` does to the cache
WriteThrough(call, fc, updated) == IF call.attached THEN updated ELSE fc

\* another getFiles call is waiting for a page or for the delay
InFlightBeside(p) == \E q \in Procs \ {p} : gf[q].pc \in {"fetching", "delay"}

\* getFiles up to its first suspension, on either engine: the checks, the
\* cache read, and the request for page 1 (lines 104-129 and 338-359)
GetFilesCall(engine, p, cat, force, first) ==
    /\ UNCHANGED auxVars
    /\ gf[p].pc \in {"idle", "done"}
    /\ gf[p].engine \in {"none", engine}
    /\ nOps < MaxOps
    /\ nOps' = nOps + 1
    /\ UNCHANGED <<disk, ipsOpts, v4, destFiles, nDownloads>>
    /\ LET call == [GfIdle EXCEPT !.cat = cat, !.force = force, !.first = first,
                                  !.engine = engine,
                                  !.diskExisted = disk.exists,
                                  !.overlaps = InFlightBeside(p),
                                  !.during = dl.pc \notin {"idle", "done"},
                                  !.loadedDuring =
                                      /\ dl.pc \notin {"idle", "done"}
                                      /\ CatVerdict(cat) = "ok"
                                      /\ Reloads(fileCache, disk, cat.id),
                                  !.prev = PrevMerge(gf[p])]
           c == cat.id
           files == GetFileCacheRet(fileCache, disk, c)
       IN  CASE CatVerdict(cat) = "empty" ->
                  /\ gf' = [gf EXCEPT ![p] = [call EXCEPT !.pc = "done", !.outcome = "resolved"]]
                  /\ UNCHANGED fileCache
            [] CatVerdict(cat) = "invalid" ->
                  /\ gf' = [gf EXCEPT ![p] = [call EXCEPT !.pc = "done", !.outcome = "rejected",
                                                         !.error = "InvalidArgument"]]
                  /\ UNCHANGED fileCache
            [] OTHER ->
                  /\ fileCache' = GetFileCacheMem(fileCache, disk, c)
                  /\ IF ServeFromCache(force, files)
                     THEN gf' = [gf EXCEPT ![p] = [call EXCEPT !.pc = "done", !.files = files,
                                                   !.before = files,
                                                   !.outcome = "resolved", !.result = files]]
                     ELSE IF FetchThrows(engine, cat)
                     THEN gf' = [gf EXCEPT ![p] = [call EXCEPT !.pc = "done", !.files = files,
                                                   !.before = files,
                                                   !.outcome = "rejected", !.error = "TypeError"]]
                     ELSE gf' = [gf EXCEPT ![p] = [call EXCEPT !.pc = "fetching", !.files = files,
                                                   !.before = files, !.listing = ListingOf(cat),
                                                   !.page = 1, !.reqs = <<1>>, !.inflight = 1]]

\* a getFiles call made while no other call is running
GetFilesOn(engine, p, cat, force, first) ==
    /\ Quiet
    /\ dl' = DlIdle
    /\ GetFilesCall(engine, p, cat, force, first)

\* a getFiles call made whatever else is running
GetFilesMeanwhile(p, cat, force, first) ==
    /\ dl' = Detach(dl, CatVerdict(cat) = "ok" /\ Reloads(fileCache, disk, cat.id))
    /\ GetFilesCall("ips3", p, cat, force, first)

\* getFiles on the base engine
GetFilesStart(p, cat, force, first) == GetFilesOn("ips3", p, cat, force, first)
\* getFiles on the IPS4 engine, which inherits it and overrides _fetchPage
V4GetFilesStart(p, cat, force, first) == GetFilesOn("ips4", p, cat, force, first)

\* the continuation of getFiles (lines 129-144), run when _fetchPage
\* resolves with all items: merge, save, re-read
MergeSave(p, fetched) ==
    LET c == gf[p].cat.id
        merged == Merge(LiveFiles(dl, fileCache, c, gf[p].files), fetched.items)
        call == [fetched EXCEPT !.pc = "done"]
    IN  IF SaveThrows(fileCache)
        THEN /\ gf' = [gf EXCEPT ![p] = [call EXCEPT !.outcome = "rejected",
                                                     !.error = "TypeError"]]
             /\ UNCHANGED <<fileCache, disk>>
        ELSE LET saved == SaveMem(fileCache, c, merged)
             IN  /\ disk' = JsonStringify(saved)
                 /\ fileCache' = GetFileCacheMem(saved, JsonStringify(saved), c)
                 /\ gf' = [gf EXCEPT ![p] =
                               [call EXCEPT !.files = merged, !.outcome = "resolved",
                                            !.result = GetFileCacheRet(saved, JsonStringify(saved), c)]]

\* the response handler of _fetchPage (lines 361-398); on the last page the
\* promise resolves and the continuation of getFiles runs in the same turn
PageArrives(p, recs, pages) ==
    /\ UNCHANGED auxVars
    /\ gf[p].pc = "fetching"
    /\ LET numPages == NumPages(pages)
           fetched == [gf[p] EXCEPT !.items = @ \o recs,
                                    !.inflight = @ - 1,
                                    !.totals = Append(@, numPages),
                                    !.shown = Append(@, pages),
                                    !.pages = Append(@, recs)]
       IN  IF LastPage(gf[p].first, gf[p].page, numPages)
           THEN /\ MergeSave(p, fetched)
                /\ dl' = Detach(dl, /\ ~SaveThrows(fileCache)
                                    /\ Replaces(dl, gf[p].cat.id, gf[p].files,
                                                fetched.items))
           ELSE /\ gf' = [gf EXCEPT ![p] = [fetched EXCEPT !.pc = "delay"]]
                /\ UNCHANGED <<fileCache, disk, dl>>
    /\ UNCHANGED <<ipsOpts, v4, destFiles, nOps, nDownloads>>

\* the same handler on a page whose indicator reads "1 of numPages"
PageResponse(p, recs, numPages) == PageArrives(p, recs, IndicatorOf(numPages))

\* a variant of the failure of a page request that keeps what was fetched:
\* the items of the pages before are merged and saved before the call fails
PageFailureMerging(p) ==
    /\ UNCHANGED auxVars
    /\ gf[p].pc = "fetching"
    /\ LET saved == SaveMem(fileCache, gf[p].cat.id, Merge(gf[p].files, gf[p].items))
       IN  /\ fileCache' = saved
           /\ disk' = JsonStringify(saved)
    /\ gf' = [gf EXCEPT ![p].pc = "done", ![p].inflight = @ - 1,
                        ![p].outcome = "rejected", ![p].error = "RequestError"]
    /\ UNCHANGED <<ipsOpts, dl, v4, destFiles, nOps, nDownloads>>

\* the page request fails: the promise chain of getFiles rejects
PageFailure(p) ==
    /\ UNCHANGED auxVars
    /\ gf[p].pc = "fetching"
    /\ gf' = [gf EXCEPT ![p].pc = "done", ![p].inflight = @ - 1,
                        ![p].outcome = "rejected", ![p].error = "RequestError"]
    /\ UNCHANGED <<fileCache, disk, ipsOpts, dl, v4, destFiles, nOps, nDownloads>>

\* Promise.delay elapsed: _fetchPage(cat, page + 1, opts, items), line 396
DelayElapsed(p) ==
    /\ UNCHANGED auxVars
    /\ gf[p].pc = "delay"
    /\ gf' = [gf EXCEPT ![p].pc = "fetching", ![p].page = @ + 1,
                        ![p].reqs = Append(@, gf[p].page + 1), ![p].inflight = @ + 1]
    /\ UNCHANGED <<fileCache, disk, ipsOpts, dl, v4, destFiles, nOps, nDownloads>>

\* ------------------------------------------------------------ downloads
Filenames == {"a.zip"}
WaitSecs == {1, 5}
Bodies == {"empty", "list", "quota", "concurrent", "wait", "other"}
\* a response: status, content-disposition header (none, filename="...",
\* or one without the quotes), the name it carries, the kind of its body,
\* and the N of a "You must wait N seconds" body
Responses ==
    {[status |-> st, disp |-> d, name |-> n, body |-> b, secs |-> 0] :
        st \in {"200", "404"}, d \in {"none", "quoted", "messy"},
        n \in Filenames, b \in Bodies \ {"wait"}}
    \cup
    {[status |-> st, disp |-> d, name |-> n, body |-> "wait", secs |-> k] :
        st \in {"200", "404"}, d \in {"none", "quoted", "messy"},
        n \in Filenames, k \in WaitSecs}

\* _prepareDownload, lines 424-448: a response with status 200 and a
\* content-disposition header is handed on as a stream, any other one is
\* buffered and handed on as text
IsStream(r) == r.status = "200" /\ r.disp # "none"

\* the fallback of lines 431-432 on a header such as `filename=a.zip`: the
\* text from "filename" on, whitespace to dots, other characters stripped
SanitizedName(n) ==
    CASE n = "a.zip" -> "filenamea.zip"

HeaderFilename(r) == IF r.disp = "quoted" THEN r.name ELSE SanitizedName(r.name)

\* the values _prepareDownload resolves with: body and filename
PreparedBody(r) == IF IsStream(r) THEN "null" ELSE r.body
PreparedFilename(r) == IF IsStream(r) THEN HeaderFilename(r) ELSE "null"

\* `!body`: null, and the empty string of an empty textual response
NoBody(b) == b \in {"null", "empty"}

FirstIndex(s, i) == CHOOSE k \in 1..Len(s) : s[k].id = i /\ \A j \in 1..(k - 1) : s[j].id # i

\* _.find(this._getFileCache(category), { id }) yields the first record of
\* that id; the download writes to that object
CachedFile(fc, c, i) == fc.map[c].files[FirstIndex(fc.map[c].files, i)]
SetCachedDetails(fc, c, i, d, info) ==
    [fc EXCEPT !.map[c].files[FirstIndex(fc.map[c].files, i)] =
                   [@ EXCEPT !.description = d, !.info = info]]
SetCachedFilename(fc, c, i, fn) ==
    [fc EXCEPT !.map[c].files[FirstIndex(fc.map[c].files, i)].filename = fn]

\* line 243: the detail page's description when there is one
NewDescription(parsed, old) ==
    CASE parsed = "null" -> old
      [] parsed = "blank" -> ""
      [] OTHER -> parsed

DlFail(call, err) == [call EXCEPT !.pc = "done", !.outcome = "rejected", !.error = err]

\* a variant of the lookup that takes every record for a cached one
FoundAlways(files, i) == TRUE

\* `cachedFile` of lines 157-158 and 267-268 is not undefined: the find by
\* id in the category's cached collection yields a record
Found(files, i) == i \in IdsOf(files)

\* download / _downloadFile up to the request of the overview page
\* (lines 196-201, 263-272, 218-220)
DownloadWith(c, i, allFiles, filename) ==
    /\ UNCHANGED auxVars
    /\ Quiet
    /\ nOps < MaxOps
    /\ nDownloads < MaxDownloads
    /\ nOps' = nOps + 1
    /\ nDownloads' = nDownloads + 1
    /\ gf' = [p \in Procs |-> GfIdle]
    /\ fileCache' = GetFileCacheMem(fileCache, disk, c)
    /\ LET call == [DlIdle EXCEPT !.cat = c, !.id = i, !.allFiles = allFiles,
                                  !.wanted = filename]
       IN  IF Found(GetFileCacheRet(fileCache, disk, c), i)
           THEN dl' = [call EXCEPT !.pc = "overview", !.overviews = 1]
           ELSE dl' = DlFail(call, "NotFromCache")
    /\ UNCHANGED <<disk, ipsOpts, v4, destFiles>>

\* a download call whose options name no file
DownloadStart(c, i, allFiles) == DownloadWith(c, i, allFiles, "undef")

\* lines 272-283: the optional wait period, then the request of the
\* download link
OptsValues == {"undefined", "noWait", "waitPeriod"}
ReadOpts(o) == ipsOpts \in {"unread", o}

AfterDownloadUrl(call, o) ==
    IF o = "undefined" THEN DlFail(call, "TypeError")
    ELSE IF o = "waitPeriod" THEN [call EXCEPT !.pc = "waitPeriod"]
    ELSE IF call.url = "undef" THEN DlFail(call, "RequestError")
    ELSE [call EXCEPT !.pc = "confirm1", !.requests = @ + 1]

\* the handler of the overview page, _getDownloadUrl lines 222-251
OverviewResponse(descr, info, signIn, button, o) ==
    /\ UNCHANGED auxVars
    /\ dl.pc = "overview"
    /\ fileCache' = WriteThrough(dl, fileCache,
           SetCachedDetails(fileCache, dl.cat, dl.id,
               NewDescription(descr, CachedFile(fileCache, dl.cat, dl.id).description), info))
    /\ LET call == [dl EXCEPT !.url = IF button THEN "link" ELSE "undef"]
       IN  IF signIn
           THEN /\ dl' = [call EXCEPT !.pc = "login", !.logins = @ + 1]
                /\ o = "unread"
                /\ UNCHANGED ipsOpts
           ELSE /\ dl' = AfterDownloadUrl(call, o)
                /\ ReadOpts(o)
                /\ ipsOpts' = o
    /\ UNCHANGED <<disk, gf, v4, destFiles, nOps, nDownloads>>

OverviewFailure ==
    /\ UNCHANGED auxVars
    /\ dl.pc = "overview"
    /\ dl' = DlFail(dl, "RequestError")
    /\ UNCHANGED <<fileCache, disk, gf, ipsOpts, v4, destFiles, nOps, nDownloads>>

\* this._ips._login() settles, line 248
LoginDone(ok, o) ==
    /\ UNCHANGED auxVars
    /\ dl.pc = "login"
    /\ IF ok
       THEN /\ dl' = AfterDownloadUrl(dl, o)
            /\ ReadOpts(o)
            /\ ipsOpts' = o
       ELSE /\ dl' = DlFail(dl, "AuthError")
            /\ o = "unread"
            /\ UNCHANGED ipsOpts
    /\ UNCHANGED <<fileCache, disk, gf, v4, destFiles, nOps, nDownloads>>

\* Promise.delay(this._opts.waitPeriod) elapsed, line 276
WaitPeriodElapsed ==
    /\ UNCHANGED auxVars
    /\ dl.pc = "waitPeriod"
    /\ dl' = IF dl.url = "undef" THEN DlFail(dl, "RequestError")
             ELSE [dl EXCEPT !.pc = "confirm1", !.requests = @ + 1]
    /\ UNCHANGED <<fileCache, disk, gf, ipsOpts, v4, destFiles, nOps, nDownloads>>

\* _streamFile, lines 465-488: path.resolve rejects a null filename;
\* otherwise the write stream is opened on the destination and the
\* response is resumed and piped into it
StreamThrows(fn) == fn = "null"
OpenWriteStream(files, fn) == files \cup {fn}

\* lines 288-291 and 311-314: record the filename and call _streamFile
StartStream(r) ==
    LET fn == PreparedFilename(r)
    IN  /\ fileCache' = WriteThrough(dl, fileCache,
                             SetCachedFilename(fileCache, dl.cat, dl.id, fn))
        /\ IF StreamThrows(fn)
           THEN /\ dl' = DlFail([dl EXCEPT !.filename = fn, !.answer = PreparedBody(r)],
                                "TypeError")
                /\ UNCHANGED destFiles
           ELSE /\ dl' = [dl EXCEPT !.pc = "streaming", !.filename = fn,
                                    !.answer = PreparedBody(r),
                                    !.existed = fn \in destFiles,
                                    !.wrote = TRUE, !.consumed = TRUE]
                /\ destFiles' = OpenWriteStream(destFiles, fn)

\* a variant of the tests of lines 316-323 with one reason for every page,
\* against which the statement on the reasons (C17) is shown to depend on
\* them
TextualVerdictOneReason(body) == "UnknownResponse"

\* the tests of lines 316-323 on a textual page: the reason of the failure
TextualVerdict(body) ==
    IF body = "quota" THEN "QuotaExceeded"
    ELSE IF body = "concurrent" THEN "ConcurrencyLimit"
    ELSE "UnknownResponse"

\* a variant of the status test that lets every status pass
StatusAny(r) == TRUE

\* the status test of line 295 on the first download response
StatusOK(r) == r.status = "200"

\* a variant that requests the link of the last file of the page
PickedLinkLast(listed, wanted) == Len(listed)

\* line 306: $('a.download_button').first(), whatever opts.filename is; the
\* position, in the page's list of files, of the link that is requested
PickedLink(listed, wanted) == 1

\* the handler of the first download response, lines 285-308; listed are
\* the names of the files a confirmation page offers, in page order
ConfirmListResponse(r, listed) ==
    /\ UNCHANGED auxVars
    /\ dl.pc = "confirm1"
    /\ IF NoBody(PreparedBody(r))
       THEN StartStream(r)
       ELSE /\ UNCHANGED <<fileCache, destFiles>>
            /\ LET seen == [dl EXCEPT !.answer = PreparedBody(r)]
               IN  dl' = IF ~StatusOK(r) THEN DlFail(seen, "StatusError")
                         ELSE IF dl.allFiles THEN DlFail(seen, "NotImplemented")
                         ELSE IF r.body # "list" THEN DlFail(seen, "RequestError")
                         ELSE [seen EXCEPT !.pc = "confirm2", !.requests = @ + 1,
                                           !.listed = listed,
                                           !.picked = PickedLink(listed, dl.wanted)]
    /\ UNCHANGED <<disk, gf, ipsOpts, v4, nOps, nDownloads>>

\* a first response whose confirmation page, if it is one, offers one file
Confirm1Response(r) == ConfirmListResponse(r, <<"a.zip">>)

\* the handler of the second download response, lines 308-324
Confirm2Response(r) ==
    /\ UNCHANGED auxVars
    /\ dl.pc = "confirm2"
    /\ IF NoBody(PreparedBody(r))
       THEN StartStream(r)
       ELSE /\ UNCHANGED <<fileCache, destFiles>>
            /\ LET seen == [dl EXCEPT !.answer = PreparedBody(r),
                                      !.debugDump = TextualVerdict(r.body) = "UnknownResponse"]
               IN  dl' = DlFail(seen, TextualVerdict(r.body))
    /\ UNCHANGED <<disk, gf, ipsOpts, v4, nOps, nDownloads>>

\* the write stream closes (lines 474-481); download then saves the cache
\* (lines 202-205)
StreamClose ==
    /\ UNCHANGED auxVars
    /\ dl.pc = "streaming"
    /\ dl' = [dl EXCEPT !.pc = "done", !.outcome = "resolved"]
    /\ disk' = JsonStringify(fileCache)
    /\ UNCHANGED <<fileCache, gf, ipsOpts, v4, destFiles, nOps, nDownloads>>

\* a variant of the failure of a stream in which the cache is saved all the
\* same, against which the statement on failed downloads (C15) is shown to
\* depend on the save being made on success only
StreamErrorSaving ==
    /\ UNCHANGED auxVars
    /\ dl.pc = "streaming"
    /\ dl' = DlFail(dl, "StreamError")
    /\ disk' = JsonStringify(fileCache)
    /\ UNCHANGED <<fileCache, gf, ipsOpts, v4, destFiles, nOps, nDownloads>>

\* a read or write error rejects the promise, lines 483-484
StreamError ==
    /\ UNCHANGED auxVars
    /\ dl.pc = "streaming"
    /\ dl' = DlFail(dl, "StreamError")
    /\ UNCHANGED <<fileCache, disk, gf, ipsOpts, v4, destFiles, nOps, nDownloads>>

\* ------------------------------------------------------ getFileDetails
SetCachedFiles(fc, c, i, listed) ==
    [fc EXCEPT !.map[c].files[FirstIndex(fc.map[c].files, i)].files = listed]

\* getFileDetails up to the request of the overview page (lines 154-162,
\* 218-220)
GetFileDetails(c, i) ==
    /\ UNCHANGED auxVars
    /\ Quiet
    /\ nOps < MaxOps
    /\ nOps' = nOps + 1
    /\ gf' = [p \in Procs |-> GfIdle]
    /\ fileCache' = GetFileCacheMem(fileCache, disk, c)
    /\ LET call == [DlIdle EXCEPT !.cat = c, !.id = i]
       IN  IF Found(GetFileCacheRet(fileCache, disk, c), i)
           THEN dl' = [call EXCEPT !.pc = "detailsOverview", !.overviews = 1]
           ELSE dl' = DlFail(call, "NotFromCache")
    /\ UNCHANGED <<disk, ipsOpts, v4, destFiles, nDownloads>>

\* lines 162-165: the cache is saved, then the download link is requested
DetailsRequest(call) ==
    IF call.url = "undef" THEN DlFail(call, "RequestError")
    ELSE [call EXCEPT !.pc = "detailsList", !.requests = @ + 1]

\* the handler of the overview page, _getDownloadUrl lines 222-251, and the
\* continuation of getFileDetails when no login is needed
DetailsOverviewResponse(descr, info, signIn, button) ==
    /\ UNCHANGED auxVars
    /\ dl.pc = "detailsOverview"
    /\ fileCache' = WriteThrough(dl, fileCache,
           SetCachedDetails(fileCache, dl.cat, dl.id,
               NewDescription(descr, CachedFile(fileCache, dl.cat, dl.id).description), info))
    /\ LET call == [dl EXCEPT !.url = IF button THEN "link" ELSE "undef"]
       IN  IF signIn
           THEN /\ dl' = [call EXCEPT !.pc = "detailsLogin", !.logins = @ + 1]
                /\ UNCHANGED disk
           ELSE /\ dl' = DetailsRequest(call)
                /\ disk' = JsonStringify(fileCache')
    /\ UNCHANGED <<gf, ipsOpts, v4, destFiles, nOps, nDownloads>>

\* the request of the overview page fails
DetailsOverviewFailure ==
    /\ UNCHANGED auxVars
    /\ dl.pc = "detailsOverview"
    /\ dl' = DlFail(dl, "RequestError")
    /\ UNCHANGED <<fileCache, disk, gf, ipsOpts, v4, destFiles, nOps, nDownloads>>

\* this._ips._login() settles, line 248
DetailsLoginDone(ok) ==
    /\ UNCHANGED auxVars
    /\ dl.pc = "detailsLogin"
    /\ IF ok
       THEN /\ dl' = DetailsRequest(dl)
            /\ disk' = JsonStringify(fileCache)
       ELSE /\ dl' = DlFail(dl, "AuthError")
            /\ UNCHANGED disk
    /\ UNCHANGED <<fileCache, gf, ipsOpts, v4, destFiles, nOps, nDownloads>>

\* the handler of the download response, lines 167-182: the names listed on
\* a page of text are stored on the record and the cache is saved; a
\* stream, or an empty body, aborts
DetailsListResponse(r, listed) ==
    /\ UNCHANGED auxVars
    /\ dl.pc = "detailsList"
    /\ LET seen == [dl EXCEPT !.answer = PreparedBody(r)]
           names == IF r.body = "list" THEN listed ELSE <<>>
       IN  IF NoBody(PreparedBody(r))
           THEN /\ dl' = DlFail(seen, "GotStream")
                /\ UNCHANGED <<fileCache, disk>>
           ELSE /\ fileCache' = WriteThrough(dl, fileCache,
                                    SetCachedFiles(fileCache, dl.cat, dl.id, names))
                /\ disk' = JsonStringify(fileCache')
                /\ dl' = [seen EXCEPT !.pc = "done", !.outcome = "resolved",
                                      !.listed = names]
    /\ UNCHANGED <<gf, ipsOpts, v4, destFiles, nOps, nDownloads>>

\* ------------------------------------------- IPS4: _downloadFile
\* The constructor (downloads.js lines 15-20) sets _ips, the two cache
\* paths and _opts; the object has no `logger` property.
DownloadsHasLogger == FALSE

\* a variant of the wait branch in which line 211 does not throw and the
\* delay of line 212 has elapsed: the request is made again, as often as the
\* server asks; against it the bound on retries (C9) is shown to depend on
\* the branch as it is
WaitBranchRetrying(call, secs) ==
    [call EXCEPT !.pc = "request", !.waitSecs = secs, !.delayMs = secs * 1000,
                 !.retries = @ + 1, !.attempts = @ + 1]

\* lines 208-213: the branch of a "You must wait N seconds" body.  Line 211
\* reads this.logger.info before the delay is scheduled.
WaitBranch(call, secs) ==
    IF DownloadsHasLogger
    THEN [call EXCEPT !.pc = "delay", !.waitSecs = secs, !.delayMs = secs * 1000]
    ELSE DlFail([call EXCEPT !.waitSecs = secs], "TypeError")

\* _downloadFile(cachedFile, fileToDownload, destFolder), lines 188-192 and
\* 218: the request of the file's link
V4DownloadFile(rec) ==
    /\ UNCHANGED auxVars
    /\ v4.pc = "idle"
    /\ v4' = [V4Idle EXCEPT !.pc = "request", !.rec = rec, !.attempts = 1]
    /\ UNCHANGED <<fileCache, disk, gf, ipsOpts, dl, destFiles, nOps, nDownloads>>

\* the handler `download`, lines 193-217
V4Response(r) ==
    /\ UNCHANGED auxVars
    /\ v4.pc = "request"
    /\ LET seen == [v4 EXCEPT !.waits = IF PreparedBody(r) = "wait" THEN @ + 1 ELSE @]
           fn == PreparedFilename(r)
       IN  IF NoBody(PreparedBody(r))
           THEN IF StreamThrows(fn)
                THEN /\ v4' = DlFail([seen EXCEPT !.rec.filename = fn], "TypeError")
                     /\ UNCHANGED destFiles
                ELSE /\ v4' = [seen EXCEPT !.pc = "streaming", !.rec.filename = fn]
                     /\ destFiles' = OpenWriteStream(destFiles, fn)
           ELSE /\ UNCHANGED destFiles
                /\ v4' = CASE r.body = "quota" -> DlFail(seen, "QuotaExceeded")
                           [] r.body = "concurrent" -> DlFail(seen, "ConcurrencyLimit")
                           [] r.body = "wait" -> WaitBranch(seen, r.secs)
                           [] OTHER -> DlFail([seen EXCEPT !.debugDump = TRUE], "UnknownResponse")
    /\ UNCHANGED <<fileCache, disk, gf, ipsOpts, dl, nOps, nDownloads>>

V4StreamClose ==
    /\ UNCHANGED auxVars
    /\ v4.pc = "streaming"
    /\ v4' = [v4 EXCEPT !.pc = "done", !.outcome = "resolved"]
    /\ UNCHANGED <<fileCache, disk, gf, ipsOpts, dl, destFiles, nOps, nDownloads>>

V4StreamError ==
    /\ UNCHANGED auxVars
    /\ v4.pc = "streaming"
    /\ v4' = DlFail(v4, "StreamError")
    /\ UNCHANGED <<fileCache, disk, gf, ipsOpts, dl, destFiles, nOps, nDownloads>>

\* ------------------------------------------- IPS4: _getDownloadUrl
\* lines 149-160, on the page the chain hands on: the download button, the
\* description, the link
V4Extract(call, button, descr) ==
    IF ~button THEN DlFail(call, "NoDownloadButton")
    ELSE [call EXCEPT !.pc = "done", !.outcome = "resolved", !.url = "link",
                      !.linkFrom = call.overviews,
                      !.rec.description = IF descr = "blank" THEN @ ELSE descr]

\* _getDownloadUrl(cachedFile) up to the request of the overview page,
\* lines 132-137
V4GetDownloadUrl(rec) ==
    /\ UNCHANGED auxVars
    /\ v4.pc = "idle"
    /\ v4' = [V4Idle EXCEPT !.pc = "overview", !.rec = rec, !.overviews = 1]
    /\ UNCHANGED <<fileCache, disk, gf, ipsOpts, dl, destFiles, nOps, nDownloads>>

\* the handlers of the overview page, lines 139-161: with a sign-in link
\* the login is started, else the page is handed on
V4OverviewResponse(signIn, button, descr) ==
    /\ UNCHANGED auxVars
    /\ v4.pc = "overview"
    /\ v4' = IF signIn THEN [v4 EXCEPT !.pc = "login", !.logins = @ + 1]
             ELSE V4Extract(v4, button, descr)
    /\ UNCHANGED <<fileCache, disk, gf, ipsOpts, dl, destFiles, nOps, nDownloads>>

\* this._ips._login() settles, line 143: the overview page is requested
\* again
V4LoginDone(ok) ==
    /\ UNCHANGED auxVars
    /\ v4.pc = "login"
    /\ v4' = IF ok THEN [v4 EXCEPT !.pc = "reoverview", !.overviews = @ + 1]
             ELSE DlFail(v4, "AuthError")
    /\ UNCHANGED <<fileCache, disk, gf, ipsOpts, dl, destFiles, nOps, nDownloads>>

\* the overview page requested after the login is handed on as it is,
\* lines 143 and 147-161
V4ReOverviewResponse(signIn, button, descr) ==
    /\ UNCHANGED auxVars
    /\ v4.pc = "reoverview"
    /\ v4' = V4Extract(v4, button, descr)
    /\ UNCHANGED <<fileCache, disk, gf, ipsOpts, dl, destFiles, nOps, nDownloads>>

\* a request of the overview page fails
V4OverviewFailure ==
    /\ UNCHANGED auxVars
    /\ v4.pc \in {"overview", "reoverview"}
    /\ v4' = DlFail(v4, "RequestError")
    /\ UNCHANGED <<fileCache, disk, gf, ipsOpts, dl, destFiles, nOps, nDownloads>>

\* ------------------------------------------------------- getCategories
\* _getCategoryCache, lines 496-505: the memo when there is one, else the
\* parsed artifact, which becomes the memo
GetCategoryCacheMem(memo, cd) ==
    IF memo.loaded THEN memo
    ELSE IF ~cd.exists THEN memo
    ELSE [loaded |-> TRUE, list |-> cd.list]
GetCategoryCacheRet(memo, cd) ==
    IF memo.loaded THEN memo.list
    ELSE IF ~cd.exists THEN <<>>
    ELSE cd.list

\* the test of line 73
CategoriesFromCache(force, cd) == ~force /\ cd.exists

\* getCategories up to its first suspension, lines 67-76
GetCategoriesStart(force) ==
    /\ gc.pc \in {"idle", "done"}
    /\ nOps < MaxOps
    /\ nOps' = nOps + 1
    /\ LET call == [GcIdle EXCEPT !.force = force, !.diskExisted = catDisk.exists]
       IN  IF CategoriesFromCache(force, catDisk)
           THEN /\ categoryCache' = GetCategoryCacheMem(categoryCache, catDisk)
                /\ gc' = [call EXCEPT !.pc = "done", !.outcome = "resolved",
                                      !.result = GetCategoryCacheRet(categoryCache, catDisk)]
           ELSE /\ gc' = [call EXCEPT !.pc = "fetching", !.requests = 1]
                /\ UNCHANGED categoryCache
    /\ UNCHANGED <<fileCache, disk, gf, ipsOpts, dl, v4, destFiles, nDownloads, catDisk, batch, findVars, utilVars>>

\* the handler of the board index, lines 76-93: the parsed categories are
\* written to the artifact and returned
CategoriesResponse(cats) ==
    /\ gc.pc = "fetching"
    /\ catDisk' = [exists |-> TRUE, list |-> cats]
    /\ gc' = [gc EXCEPT !.pc = "done", !.outcome = "resolved", !.result = cats]
    /\ UNCHANGED <<fileCache, disk, gf, ipsOpts, dl, v4, destFiles, nOps, nDownloads,
                   categoryCache, batch, findVars, utilVars>>

\* the request of the board index fails
CategoriesFailure ==
    /\ gc.pc = "fetching"
    /\ gc' = [gc EXCEPT !.pc = "done", !.outcome = "rejected"]
    /\ UNCHANGED <<fileCache, disk, gf, ipsOpts, dl, v4, destFiles, nOps, nDownloads,
                   categoryCache, catDisk, batch, findVars, utilVars>>

\* ------------------------------------------- download of an array
\* Promise.each (line 199) calls the iterator on the first element, and on
\* the next one each time the promise the iterator returned is fulfilled:
\* the positions it calls at the start, and after position k of n
EachAllAtOnce(n) == 1..n
EachFirst(n) == IF n >= 1 THEN {1} ELSE {}
EachAfter(k, n) == IF k < n THEN {k + 1} ELSE {}

Launch(phase, ks) ==
    [k \in 1..Len(phase) |-> IF k \in ks /\ phase[k] = "waiting" THEN "resolving" ELSE phase[k]]

\* download(file, destFolder, opts) with an array, lines 196-200
BatchStart(ids) ==
    /\ batch.pc = "idle"
    /\ batch' = [BatchIdle EXCEPT !.pc = "running", !.ids = ids,
                     !.phase = Launch([k \in 1..Len(ids) |-> "waiting"], EachFirst(Len(ids)))]
    /\ UNCHANGED <<fileCache, disk, gf, ipsOpts, dl, v4, destFiles, nOps, nDownloads, catVars, findVars, utilVars>>

\* a record's resolution hands its binary response to _streamFile
\* (lines 288-290, 311-313)
BatchItemStreams(k) ==
    /\ batch.pc = "running"
    /\ k \in 1..Len(batch.ids) /\ batch.phase[k] = "resolving"
    /\ batch' = [batch EXCEPT !.phase[k] = "streaming"]
    /\ UNCHANGED <<fileCache, disk, gf, ipsOpts, dl, v4, destFiles, nOps, nDownloads, catVars, findVars, utilVars>>

\* a record's _downloadFile promise rejects, while resolving or while
\* streaming: Promise.each rejects, calls no further element, and the
\* continuation of lines 202-205 does not run
BatchItemFails(k) ==
    /\ batch.pc = "running"
    /\ k \in 1..Len(batch.ids) /\ batch.phase[k] \in {"resolving", "streaming"}
    /\ batch' = [batch EXCEPT !.phase[k] = "failed", !.pc = "done", !.outcome = "rejected"]
    /\ UNCHANGED <<fileCache, disk, gf, ipsOpts, dl, v4, destFiles, nOps, nDownloads, catVars, findVars, utilVars>>

\* a record's write stream closes (lines 474-481): its promise is
\* fulfilled; Promise.each calls the next element, or is fulfilled itself
\* when the others are, and the cache is then saved (lines 202-205)
BatchItemCloses(k) ==
    /\ batch.pc = "running"
    /\ k \in 1..Len(batch.ids) /\ batch.phase[k] = "streaming"
    /\ LET closed == [batch.phase EXCEPT ![k] = "done"]
           phase == Launch(closed, EachAfter(k, Len(batch.ids)))
       IN  IF \A j \in 1..Len(phase) : phase[j] = "done"
           THEN batch' = [batch EXCEPT !.phase = phase, !.pc = "done",
                                       !.outcome = "resolved", !.saves = @ + 1]
           ELSE batch' = [batch EXCEPT !.phase = phase]
    /\ UNCHANGED <<fileCache, disk, gf, ipsOpts, dl, v4, destFiles, nOps, nDownloads, catVars, findVars, utilVars>>

\* ---------------------------------- download of an array, with the cache
\* the iterator of line 199 calls _downloadFile on a record: the lookup of
\* lines 263-270 and the request of the overview page
ElementStart(c, i) ==
    /\ fileCache' = GetFileCacheMem(fileCache, disk, c)
    /\ LET call == [DlIdle EXCEPT !.cat = c, !.id = i]
       IN  dl' = IF Found(GetFileCacheRet(fileCache, disk, c), i)
                 THEN [call EXCEPT !.pc = "overview", !.overviews = 1]
                 ELSE DlFail(call, "NotFromCache")

\* the element of the array whose _downloadFile call is running
Current == CHOOSE k \in 1..Len(batch.ids) : batch.phase[k] = "resolving"

\* download(file, destFolder, opts) with an array of records of a category,
\* lines 196-200: Promise.each calls the iterator on the first record
DownloadArray(c, ids) ==
    /\ batch.pc = "idle" /\ Quiet /\ dl.pc = "idle"
    /\ ids # <<>>
    /\ batch' = [BatchIdle EXCEPT !.pc = "running", !.ids = ids,
                     !.phase = Launch([k \in 1..Len(ids) |-> "waiting"], EachFirst(Len(ids)))]
    /\ ElementStart(c, ids[1])
    /\ UNCHANGED <<disk, gf, ipsOpts, v4, destFiles, nOps, nDownloads,
                   catVars, findVars, utilVars>>

\* the write stream of an element closes (lines 474-481): Promise.each calls
\* the iterator on the next record, or is fulfilled after the last one, and
\* the cache is then saved (lines 202-205)
ArrayElementCloses ==
    /\ batch.pc = "running"
    /\ dl.pc = "streaming"
    /\ LET k == Current
           closed == [batch.phase EXCEPT ![k] = "done"]
       IN  IF k = Len(batch.ids)
           THEN /\ batch' = [batch EXCEPT !.phase = closed, !.pc = "done",
                                          !.outcome = "resolved", !.saves = @ + 1]
                /\ dl' = [dl EXCEPT !.pc = "done", !.outcome = "resolved"]
                /\ disk' = JsonStringify(fileCache)
                /\ UNCHANGED fileCache
           ELSE /\ batch' = [batch EXCEPT
                                !.phase = Launch(closed, EachAfter(k, Len(batch.ids)))]
                /\ ElementStart(dl.cat, batch.ids[k + 1])
                /\ UNCHANGED disk
    /\ UNCHANGED <<gf, ipsOpts, v4, destFiles, nOps, nDownloads,
                   catVars, findVars, utilVars>>

\* the _downloadFile promise of an element rejects: Promise.each rejects,
\* calls no further element, and the continuation of lines 202-205 does
\* not run
ArrayElementFails ==
    /\ batch.pc = "running"
    /\ dl.pc = "done" /\ dl.outcome = "rejected"
    /\ batch' = [batch EXCEPT !.phase[Current] = "failed", !.pc = "done",
                              !.outcome = "rejected"]
    /\ UNCHANGED <<fileCache, disk, gf, ipsOpts, dl, v4, destFiles, nOps, nDownloads,
                   catVars, findVars, utilVars>>

\* ------------------------------------------------------ matchFile
\* the function matchFile(query) returns is applied to a file
MatchFile(query, title, description) ==
    /\ mt.pc = "idle"
    /\ mt' = [pc |-> "done", query |-> query, title |-> title,
              description |-> description,
              accepted |-> matchFile(query, title, description)]
    /\ UNCHANGED <<fileCache, disk, gf, ipsOpts, dl, v4, destFiles, nOps, nDownloads,
                   catVars, batch, find, utilVars>>

\* ------------------------------------------------ findFile, findFiles
\* the continuation of findFile (line 45) or of findFiles (line 58), run when
\* the getFiles call they made resolves
FindSettle(kind, query) ==
    /\ find.pc = "idle"
    /\ gf[1].pc = "done" /\ gf[1].outcome = "resolved"
    /\ find' = [pc |-> "done", kind |-> kind, query |-> query,
                result |-> IF kind = "findFile" THEN Find(gf[1].result, query)
                           ELSE FilterFiles(gf[1].result, query)]
    /\ UNCHANGED <<fileCache, disk, gf, ipsOpts, dl, v4, destFiles, nOps, nDownloads,
                   catVars, batch, mt, utilVars>>

\* ------------------------------------ _prepareDownload, _streamFile
\* a response with status 200 and a content-disposition header arrives
\* (lines 424-435) and is streamed (lines 465-473): the path opened for
\* writing
PrepareAndStream(header, destFolder) ==
    /\ wr.pc = "idle"
    /\ wr' = [pc |-> "done", header |-> header,
              filename |-> DispositionFilename(header), destFolder |-> destFolder,
              dest |-> PathResolve(destFolder, DispositionFilename(header))]
    /\ UNCHANGED <<fileCache, disk, gf, ipsOpts, dl, v4, destFiles, nOps, nDownloads,
                   catVars, batch, findVars, dly, lg>>

\* ------------------------------------------- the delay between pages
\* an option the caller did not give
NotGiven == -1
DefaultMinDelay == 500
DefaultMaxDelay == 2000
\* `opts.minDelay || 500`: the default replaces every falsy value
OrDefault(v, d) == IF v = NotGiven \/ v = 0 THEN d ELSE v

\* Math.floor(Math.random() * n) for an integer n: Math.random() is any
\* number r with 0 <= r < 1
FloorOfRandomTimes(n) == IF n > 0 THEN 0..(n - 1) ELSE n..0

\* lines 111-112 and 395: the delay before the next page is requested
ChooseDelay(givenMin, givenMax, d) ==
    /\ dly.pc = "idle"
    /\ LET minDelay == OrDefault(givenMin, DefaultMinDelay)
           maxDelay == OrDefault(givenMax, DefaultMaxDelay)
       IN  /\ d - minDelay \in FloorOfRandomTimes(maxDelay - minDelay + 1)
           /\ dly' = [pc |-> "done", given |-> <<givenMin, givenMax>>,
                      minDelay |-> minDelay, maxDelay |-> maxDelay, delay |-> d]
    /\ UNCHANGED <<fileCache, disk, gf, ipsOpts, dl, v4, destFiles, nOps, nDownloads,
                   catVars, batch, findVars, wr, lg>>

\* ---------------------------------------------------------------- login
\* Two implementations: IPS.prototype._login (src/index.js lines 119-168,
\* "index") and the login method of the IPS4 class (src/unnamed/part_000
\* lines 25-74, "ips4"). lg.session tells whether the cookie jar holds a
\* session the board accepts.
LoginImpls == {"index", "ips4"}
\* the status of an accepted login
AcceptedStatus(impl) == IF impl = "index" THEN "302" ELSE "301"
\* what the promise resolves with: _login returns nothing on either way
AlreadyLoggedValue(impl) == IF impl = "index" THEN "undefined" ELSE "false"
LoggedInValue(impl) == IF impl = "index" THEN "undefined" ELSE "true"

LgUnchanged ==
    UNCHANGED <<fileCache, disk, gf, ipsOpts, dl, v4, destFiles, nOps, nDownloads,
                catVars, batch, findVars, wr, dly>>
LgSettle(call, outcome, value, error) ==
    [call EXCEPT !.pc = "done", !.outcome = outcome, !.value = value, !.error = error]

\* the call up to the request of the index page
LoginStart(impl, credentials) ==
    /\ lg.pc \in {"idle", "done"}
    /\ lg.impl \in {"none", impl}
    /\ lg.calls < MaxLogins
    /\ LET call == [LgIdle EXCEPT !.impl = impl, !.session = lg.session,
                                  !.calls = lg.calls + 1, !.posts = lg.posts]
       IN  lg' = IF credentials THEN [call EXCEPT !.pc = "index"]
                 ELSE LgSettle(call, "rejected", "none", "NoCredentials")
    /\ LgUnchanged

\* the index page arrives: it shows the user when the session is valid;
\* otherwise the form fields are read (index: auth_key and referer, which
\* may be missing) and the credentials are posted
LoginIndexResponse(hasKeys) ==
    /\ lg.pc = "index"
    /\ lg' = IF lg.session THEN LgSettle(lg, "resolved", AlreadyLoggedValue(lg.impl), "")
             ELSE IF lg.impl = "index" /\ ~hasKeys
                  THEN LgSettle(lg, "rejected", "none", "NoAuthKey")
                  ELSE [lg EXCEPT !.pc = "posting", !.posted = TRUE, !.posts = @ + 1]
    /\ LgUnchanged

\* the answer to the POST
LoginPostResponse(incorrect, status) ==
    /\ lg.pc = "posting"
    /\ lg' = IF incorrect THEN LgSettle(lg, "rejected", "none", "WrongCredentials")
             ELSE IF status # AcceptedStatus(lg.impl)
                  THEN LgSettle(lg, "rejected", "none", "UnexpectedResponse")
                  ELSE LgSettle([lg EXCEPT !.session = TRUE], "resolved",
                                LoggedInValue(lg.impl), "")
    /\ LgUnchanged

\* a request of the call fails
LoginRequestFailure ==
    /\ lg.pc \in {"index", "posting"}
    /\ lg' = LgSettle(lg, "rejected", "none", "RequestError")
    /\ LgUnchanged

\* the board ends the session between two calls
SessionExpires ==
    /\ lg.pc = "done" /\ lg.session
    /\ lg' = [lg EXCEPT !.session = FALSE]
    /\ LgUnchanged

\* ------------------------------------------------------ specifications
\* the engine: getFiles and download calls, one after the other
Next ==
    \/ \E cat \in SomeCatRefs, force \in BOOLEAN, first \in BOOLEAN :
           GetFilesStart(1, cat, force, first)
    \/ \E recs \in PageContents, n \in 1..MaxPages : PageResponse(1, recs, n)
    \/ PageFailure(1)
    \/ DelayElapsed(1)
    \/ \E c \in CatIds, i \in Ids, allFiles \in BOOLEAN : DownloadStart(c, i, allFiles)
    \/ \E descr \in {"null", "blank", "full"}, info \in {"some"},
          signIn \in BOOLEAN, button \in BOOLEAN, o \in OptsValues \cup {"unread"} :
           OverviewResponse(descr, info, signIn, button, o)
    \/ OverviewFailure
    \/ \E ok \in BOOLEAN, o \in OptsValues \cup {"unread"} : LoginDone(ok, o)
    \/ WaitPeriodElapsed
    \/ \E r \in Responses : Confirm1Response(r)
    \/ \E r \in Responses : Confirm2Response(r)
    \/ StreamClose
    \/ StreamError

Spec == Init /\ [][Next]_vars

\* one getFiles call, on every category reference and every paging
InitFetch == Init /\ destFiles = {}

NextFetch ==
    \/ \E cat \in CatRefs, force \in BOOLEAN, first \in BOOLEAN :
           nOps = 0 /\ GetFilesStart(1, cat, force, first)
    \/ \E recs \in SortedPages, n \in 1..MaxTotal : PageResponse(1, recs, n)
    \/ PageFailure(1)
    \/ DelayElapsed(1)

SpecFetch == InitFetch /\ [][NextFetch]_vars

\* one IPS4 _downloadFile call, on every record and every response
NextV4 ==
    \/ \E rec \in {Rec(i, d) : i \in Ids, d \in Descriptions} : V4DownloadFile(rec)
    \/ \E r \in Responses : V4Response(r)
    \/ V4StreamClose
    \/ V4StreamError
    \/ \E rec \in {Rec(i, d) : i \in Ids, d \in Descriptions} : V4GetDownloadUrl(rec)
    \/ \E signIn \in BOOLEAN, button \in BOOLEAN, descr \in {"blank", "full"} :
           V4OverviewResponse(signIn, button, descr)
    \/ \E ok \in BOOLEAN : V4LoginDone(ok)
    \/ \E signIn \in BOOLEAN, button \in BOOLEAN, descr \in {"blank", "full"} :
           V4ReOverviewResponse(signIn, button, descr)
    \/ V4OverviewFailure

SpecV4 == Init /\ [][NextV4]_vars

\* getCategories calls, one after the other, on an engine whose category
\* artifact is absent or was left by an earlier process
InitCat ==
    /\ fileCache = CacheUndefined
    /\ disk = DiskAbsent
    /\ gf = [p \in Procs |-> GfIdle]
    /\ ipsOpts = "unread"
    /\ dl = DlIdle
    /\ v4 = V4Idle
    /\ destFiles = {}
    /\ nOps = 0
    /\ nDownloads = 0
    /\ categoryCache = CatMemoUndefined
    /\ catDisk \in {CatDiskAbsent} \cup {[exists |-> TRUE, list |-> l] : l \in CatLists}
    /\ gc = GcIdle
    /\ batch = BatchIdle
    /\ mt = MtIdle
    /\ find = FindIdle
    /\ wr = WrIdle
    /\ dly = DlyIdle
    /\ lg = LgIdle

NextCat ==
    \/ \E force \in BOOLEAN : GetCategoriesStart(force)
    \/ \E cats \in CatLists : CategoriesResponse(cats)
    \/ CategoriesFailure

SpecCat == InitCat /\ [][NextCat]_vars

\* getFiles calls without forceRefresh on an engine whose file artifact is
\* absent or was left by an earlier process: one category's collection of
\* listed records, saved before or after the category was attached to them
SeedRecs(c) == {[Rec(i, "sum") EXCEPT !.category = k] : i \in Ids, k \in {0, c}}
SeedDisks ==
    {DiskAbsent, [exists |-> TRUE, map |-> EmptyMap]}
        \cup UNION {{[exists |-> TRUE, map |-> [EmptyMap EXCEPT ![c] = Entry(s)]] :
                        s \in SeqsUpTo(SeedRecs(c), MaxSeed)} : c \in CatIds}

InitCached ==
    /\ fileCache = CacheUndefined
    /\ disk \in SeedDisks
    /\ gf = [p \in Procs |-> GfIdle]
    /\ ipsOpts = "unread"
    /\ dl = DlIdle
    /\ v4 = V4Idle
    /\ destFiles = {}
    /\ nOps = 0
    /\ nDownloads = 0
    /\ categoryCache = CatMemoUndefined
    /\ catDisk = CatDiskAbsent
    /\ gc = GcIdle
    /\ batch = BatchIdle
    /\ mt = MtIdle
    /\ find = FindIdle
    /\ wr = WrIdle
    /\ dly = DlyIdle
    /\ lg = LgIdle

NextCached ==
    \E cat \in SomeCatRefs, first \in BOOLEAN : GetFilesStart(1, cat, FALSE, first)

SpecCached == InitCached /\ [][NextCached]_vars

\* one download call on an array of records
NextBatch ==
    \/ \E ids \in SeqsUpTo(Ids, MaxBatch) \ {<<>>} : BatchStart(ids)
    \/ \E k \in 1..MaxBatch : BatchItemStreams(k)
    \/ \E k \in 1..MaxBatch : BatchItemFails(k)
    \/ \E k \in 1..MaxBatch : BatchItemCloses(k)

SpecBatch == Init /\ [][NextBatch]_vars

\* one download call of one record, on an engine whose file artifact was
\* left by an earlier process
NextResolve ==
    \/ \E c \in CatIds, i \in Ids, allFiles \in BOOLEAN :
           nOps = 0 /\ DownloadStart(c, i, allFiles)
    \/ \E descr \in {"null", "blank", "full"}, info \in {"some"},
          signIn \in BOOLEAN, button \in BOOLEAN, o \in OptsValues \cup {"unread"} :
           OverviewResponse(descr, info, signIn, button, o)
    \/ OverviewFailure
    \/ \E ok \in BOOLEAN, o \in OptsValues \cup {"unread"} : LoginDone(ok, o)
    \/ WaitPeriodElapsed
    \/ \E r \in Responses : Confirm1Response(r)
    \/ \E r \in Responses : Confirm2Response(r)
    \/ StreamClose
    \/ StreamError

SpecResolve == InitCached /\ [][NextResolve]_vars

\* matchFile applied once: queries of two words, titles and descriptions
\* of a few characters and the titles of the documentation
FunPics == <<"f", "u", "n", " ", "p", "i", "c", "s">>
FunnyPics == <<"F", "u", "n", "n", "y", " ", "P", "i", "c", "s">>
FunnyPictures ==
    <<"F", "u", "n", "n", "y", " ", "P", "i", "c", "t", "u", "r", "e", "s">>
SeriousDocuments ==
    <<"S", "e", "r", "i", "o", "u", "s", " ", "D", "o", "c", "u", "m", "e", "n", "t", "s">>
FirstWords == {<<"f">>, <<"F">>, <<"f", "!">>, <<"f", "-">>}
Gaps == {<<" ">>, <<" ", "\t">>}
SecondWords == {<<"p">>, <<"p", "x">>}
Queries == {FunPics} \cup {a \o g \o b : a \in FirstWords, g \in Gaps, b \in SecondWords}
TextChars == {"f", "P", "x", "\n"}
Texts == {FunnyPics, FunnyPictures, SeriousDocuments} \cup SeqsUpTo(TextChars, MaxText)
DescriptionTexts == {<<>>, FunnyPics, <<"F", "-", "p">>, <<"f", "\n", "p">>}

InitMatch == Init /\ disk = DiskAbsent /\ destFiles = {}

NextMatch ==
    \E query \in Queries, title \in Texts, description \in DescriptionTexts :
        MatchFile(query, title, description)

SpecMatch == InitMatch /\ [][NextMatch]_vars

\* findFile and findFiles without forceRefresh on an engine whose file
\* artifact was left by an earlier process
FindQueries == {FunPics, <<"s">>, <<"d", "o", "c">>, <<"z">>}

NextFind ==
    \/ \E cat \in SomeCatRefs, first \in BOOLEAN : GetFilesStart(1, cat, FALSE, first)
    \/ \E kind \in {"findFile", "findFiles"}, query \in FindQueries : FindSettle(kind, query)

SpecFind == InitCached /\ [][NextFind]_vars

\* one response with a content-disposition header: the name quoted, not
\* quoted, or without the key, the key in either case
NameTexts == SeqsUpTo({"a", ".", "/"}, MaxName) \ {<<>>}
Headers ==
    {QuotedKey \o n \o <<Quote>> : n \in NameTexts}
        \cup {<<"F", "I", "L", "E", "N", "A", "M", "E", "=", Quote>> \o n \o <<Quote>> :
                 n \in NameTexts}
        \cup {FilenameKey \o <<"=">> \o n : n \in NameTexts}
        \cup {<<"x", " ">> \o n : n \in NameTexts}
DestFolders == {<<<<"d">>>>, <<<<"d">>, <<"e">>>>}

NextPath == \E header \in Headers, destFolder \in DestFolders : PrepareAndStream(header, destFolder)

SpecPath == InitMatch /\ [][NextPath]_vars

\* one download call that names the file it wants, answered by a
\* confirmation page that offers one or two files
ListedFiles == {<<"a.zip">>, <<"a.zip", "b.zip">>, <<"b.zip", "a.zip">>}

NextPick ==
    \/ \E c \in CatIds, i \in Ids, filename \in {"undef", "a.zip", "b.zip"} :
           nOps = 0 /\ DownloadWith(c, i, FALSE, filename)
    \/ OverviewResponse("null", "some", FALSE, TRUE, "noWait")
    \/ \E r \in Responses, listed \in ListedFiles : ConfirmListResponse(r, listed)
    \/ \E r \in Responses : Confirm2Response(r)
    \/ StreamClose
    \/ StreamError

SpecPick == InitCached /\ [][NextPick]_vars

\* one delay, for every pair of options of the caller
GivenDelays == {NotGiven} \cup 0..MaxDelay

NextDelay ==
    \E givenMin \in GivenDelays, givenMax \in GivenDelays, d \in 0..(DefaultMaxDelay + MaxDelay) :
        ChooseDelay(givenMin, givenMax, d)

SpecDelay == InitMatch /\ [][NextDelay]_vars

\* one getFiles call without forceRefresh, by id or by object, on either
\* engine
NextById ==
    \/ \E k \in {"obj", "int"}, c \in CatIds, first \in BOOLEAN :
           nOps = 0 /\ GetFilesStart(1, CatRef(k, c), FALSE, first)
    \/ \E k \in {"obj", "int"}, c \in CatIds, first \in BOOLEAN :
           nOps = 0 /\ V4GetFilesStart(1, CatRef(k, c), FALSE, first)
    \/ \E recs \in SortedPages, n \in 1..MaxTotal : PageResponse(1, recs, n)
    \/ PageFailure(1)
    \/ DelayElapsed(1)

SpecById == InitCached /\ [][NextById]_vars

\* login calls, one after the other, on one implementation
NextLogin ==
    \/ \E impl \in LoginImpls, credentials \in BOOLEAN : LoginStart(impl, credentials)
    \/ \E hasKeys \in BOOLEAN : LoginIndexResponse(hasKeys)
    \/ \E incorrect \in BOOLEAN, status \in {"200", "301", "302"} :
           LoginPostResponse(incorrect, status)
    \/ LoginRequestFailure
    \/ SessionExpires

SpecLogin == InitMatch /\ [][NextLogin]_vars

\* one forced getFiles call of one or two pages on an engine whose file
\* artifact was left by an earlier process
NextMerge ==
    \/ \E c \in CatIds, first \in BOOLEAN :
           nOps = 0 /\ GetFilesStart(1, CatRef("obj", c), TRUE, first)
    \/ \E recs \in SortedPages, n \in {1, 2} : PageResponse(1, recs, n)
    \/ PageFailure(1)
    \/ DelayElapsed(1)

SpecMerge == InitCached /\ [][NextMerge]_vars

\* matchFile applied once: queries of three words, titles that hold the
\* three words in either order with a few characters between them
LongQueries ==
    {<<"a", " ", "b", " ", "c">>, <<"a", " ", " ", "b", "\t", "c">>, <<"A", " ", "b", " ", "C", "!">>}
GapTexts == SeqsUpTo({"-", "x", " "}, MaxGap)
LongTitles ==
    {<<"a">> \o g \o <<"b">> \o h \o <<"c">> : g \in GapTexts, h \in GapTexts}
        \cup {<<"c">> \o g \o <<"b">> \o h \o <<"a">> : g \in GapTexts, h \in GapTexts}

NextWords ==
    \E query \in LongQueries, title \in LongTitles : MatchFile(query, title, <<>>)

SpecWords == InitMatch /\ [][NextWords]_vars

\* one getFiles call on listings whose pages show every kind of page
\* indicator: none, one that cannot be read, and "X of Y"
NoIndicators ==
    {<<>>,
     <<"P", "a", "g", "e">>,
     <<"1", " ", "o", "f">>,
     <<"1", "o", "f", "2">>,
     <<"x", " ", "o", "f", " ", "2">>}
ReadIndicators ==
    {<<"1", " ", "o", "f", " ", "1">>,
     <<"P", "a", "g", "e", " ", "1", " ", "O", "F", " ", "2">>,
     <<"2", " ", "o", "f", " ", "3", " ">>}
Indicators == NoIndicators \cup ReadIndicators

NextPaging ==
    \/ \E cat \in CatRefs, force \in BOOLEAN, first \in BOOLEAN :
           nOps = 0 /\ GetFilesStart(1, cat, force, first)
    \/ \E recs \in SortedPages, pages \in Indicators : PageArrives(1, recs, pages)
    \/ PageFailure(1)
    \/ DelayElapsed(1)

SpecPaging == InitFetch /\ [][NextPaging]_vars

\* one download or getFileDetails call, on every record id, cached or not
NextDetails ==
    \/ \E c \in CatIds, i \in Ids, allFiles \in BOOLEAN :
           nOps = 0 /\ DownloadStart(c, i, allFiles)
    \/ \E c \in CatIds, i \in Ids : nOps = 0 /\ GetFileDetails(c, i)
    \/ \E button \in BOOLEAN : OverviewResponse("null", "some", FALSE, button, "noWait")
    \/ OverviewFailure
    \/ \E r \in Responses : Confirm1Response(r)
    \/ \E r \in Responses : Confirm2Response(r)
    \/ StreamClose
    \/ StreamError
    \/ \E descr \in {"null", "full"}, signIn \in BOOLEAN, button \in BOOLEAN :
           DetailsOverviewResponse(descr, "some", signIn, button)
    \/ DetailsOverviewFailure
    \/ \E ok \in BOOLEAN : DetailsLoginDone(ok)
    \/ \E r \in Responses, listed \in ListedFiles : DetailsListResponse(r, listed)

SpecDetails == InitCached /\ [][NextDetails]_vars

\* two getFiles calls one after the other on an engine whose artifact
\* exists and holds no collection yet
InitSeq == InitCached /\ disk = [exists |-> TRUE, map |-> EmptyMap]

NextSeq ==
    \/ \E c \in CatIds, force \in BOOLEAN, first \in BOOLEAN :
           nOps < 2 /\ GetFilesStart(1, CatRef("obj", c), force, first)
    \/ \E recs \in SortedPages, n \in {1, 2} : PageResponse(1, recs, n)
    \/ PageFailure(1)
    \/ DelayElapsed(1)

SpecSeq == InitSeq /\ [][NextSeq]_vars

\* one download call on an array of records of a category, over every
\* seeded artifact: each record's resolution and stream in turn
NextArray ==
    \/ \E c \in CatIds, ids \in SeqsUpTo(Ids, MaxBatch) : DownloadArray(c, ids)
    \/ \E button \in BOOLEAN : OverviewResponse("null", "some", FALSE, button, "noWait")
    \/ OverviewFailure
    \/ \E r \in Responses : Confirm1Response(r)
    \/ \E r \in Responses : Confirm2Response(r)
    \/ StreamError
    \/ ArrayElementCloses
    \/ ArrayElementFails

SpecArray == InitCached /\ [][NextArray]_vars

\* two getFiles calls on categories of an engine whose artifact exists,
\* each of one page, the second able to start while the first waits for
\* its page
NextOverlap ==
    \/ \E p \in Procs, c \in CatIds, force \in BOOLEAN :
           gf[p].pc = "idle" /\ GetFilesMeanwhile(p, CatRef("obj", c), force, FALSE)
    \/ \E p \in Procs, recs \in SortedPages : PageResponse(p, recs, 1)
    \/ \E p \in Procs : PageFailure(p)

SpecOverlap == InitSeq /\ [][NextOverlap]_vars

\* one download call and, while it runs, one getFiles call of one page on
\* a category, over every seeded artifact
NextReload ==
    \/ \E c \in CatIds, i \in Ids : nOps = 0 /\ DownloadStart(c, i, FALSE)
    \/ \E c \in CatIds, force \in BOOLEAN :
           /\ gf[1].pc = "idle" /\ dl.pc \notin {"idle", "done"}
           /\ GetFilesMeanwhile(1, CatRef("obj", c), force, FALSE)
    \/ \E recs \in SortedPages : PageResponse(1, recs, 1)
    \/ PageFailure(1)
    \/ OverviewResponse("null", "some", FALSE, TRUE, "noWait")
    \/ \E r \in Responses : Confirm1Response(r)
    \/ \E r \in Responses : Confirm2Response(r)
    \/ StreamClose
    \/ StreamError

SpecReload == InitCached /\ [][NextReload]_vars

TypeOK == nOps \in 0..MaxOps /\ nDownloads \in 0..MaxDownloads

\* ================================================================ claims
Call == gf[1]
Refreshed(call) == call.pc = "done" /\ call.outcome = "resolved" /\ call.reqs # <<>>
Stored(c) == fileCache.map[c].files
Persisted(c) == disk.map[c].files
Bare(s) == [i \in 1..Len(s) |-> [s[i] EXCEPT !.category = 0]]
RecordsOf(s, i) == {s[k] : k \in {j \in 1..Len(s) : s[j].id = i}}

\* C1: a forced refresh that follows a forced refresh of the same category
\* (whose cache was not empty) and fetches the same pages, with distinct ids,
\* leaves a collection without duplicate ids, of the size of the union of
\* the ids cached before and the ids fetched, and with the ids and the size
\* the first refresh left.
C1_MergeIdempotent ==
    (/\ Refreshed(Call) /\ Call.force
     /\ Call.prev.valid /\ Call.prev.force /\ Call.prev.hadCache
     /\ Call.prev.cat = Call.cat.id
     /\ Call.prev.pages = Call.pages
     /\ NoDup(Call.items))
    => /\ NoDup(Call.result)
       /\ NoDup(Persisted(Call.cat.id))
       /\ Len(Call.result) = Cardinality(IdsOf(Call.before) \cup IdsOf(Call.items))
       /\ IdsOf(Call.result) = IdsOf(Call.before)
       /\ Len(Call.result) = Len(Call.before)

\* C2: a refresh keeps the description and the info a cached record
\* carries when the fresh summary of the same id has none, and takes the
\* fresh description when there is one.
C2_MergeKeepsEnrichment ==
    (Refreshed(Call) /\ NoDup(Call.before) /\ NoDup(Call.items))
    => \A i \in IdsOf(Call.before) \cap IdsOf(Call.items) :
         \A old \in RecordsOf(Call.before, i), fresh \in RecordsOf(Call.items, i),
            new \in RecordsOf(Call.result, i) :
              /\ (fresh.description = "" => new.description = old.description)
              /\ (fresh.description # "" => new.description = fresh.description)
              /\ (fresh.info = "undef" => new.info = old.info)

\* C3: no category's collection, in memory or persisted, holds two records
\* of the same id.
C3_UniqueIds ==
    \A c \in CatIds : NoDup(Stored(c)) /\ NoDup(Persisted(c))

\* C4: with no artifact yet, getFiles of a valid category whose pages
\* were all fetched resolves with the fetched records, stored under the
\* category and persisted.
C4_FirstRunWorks ==
    (/\ Call.pc = "done" /\ ~Call.diskExisted
     /\ CatVerdict(Call.cat) = "ok" /\ Call.error # "RequestError")
    => /\ Call.before = <<>>
       /\ Call.outcome = "resolved"
       /\ Bare(Call.result) = Bare(Call.items)
       /\ Bare(Stored(Call.cat.id)) = Bare(Call.items)
       /\ disk.exists
       /\ Bare(Persisted(Call.cat.id)) = Bare(Call.items)

\* C7: when the file already exists in the destination folder, nothing is
\* written and the incoming stream is not consumed.
C7_SkipExistingFile ==
    dl.existed => ~dl.wrote /\ ~dl.consumed

\* ---- paging (SpecFetch)
UpTo(n) == [k \in 1..n |-> k]
SameTotal(call) == \A k \in 1..Len(call.totals) : call.totals[k] = call.totals[1]
\* _fetchPage resolved: every request was answered and the last answer
\* ended the paging
Fetched(call) ==
    call.pc = "done" /\ call.reqs # <<>> /\ Len(call.totals) = Len(call.reqs)

\* C5: while every page reports the same total Y and firstPageOnly is not
\* set, the pages requested are 1, 2, ... in ascending order, each once,
\* never two at a time and none beyond Y; when the fetch ends, Y pages were
\* requested and the records returned are the pages' records in page order.
C5_PaginationStopsAtNumPages ==
    (~Call.first /\ SameTotal(Call))
    => /\ Call.inflight \in {0, 1}
       /\ Call.reqs = UpTo(Len(Call.reqs))
       /\ (Call.totals # <<>> => Len(Call.reqs) <= Call.totals[1])
       /\ (Fetched(Call) => /\ Len(Call.reqs) = Call.totals[1]
                            /\ Call.items = Flatten(Call.pages))

\* a fetch of two pages, each reporting 2 pages and holding a record
C5_Witness ==
    /\ Fetched(Call) /\ ~Call.first /\ SameTotal(Call)
    /\ Call.totals[1] = 2
    /\ Len(Call.items) = 2

\* C6: with firstPageOnly set, one page is requested and the records
\* returned are those of that page, whatever total the page reports.
C6_FirstPageOnly ==
    Call.first
    => /\ Len(Call.reqs) <= 1
       /\ (Fetched(Call) => Call.reqs = <<1>> /\ Call.items = Call.pages[1])

\* a firstPageOnly fetch whose page reports 3 pages and holds a record
C6_Witness ==
    /\ Fetched(Call) /\ Call.first
    /\ Call.totals[1] = 3
    /\ Call.items # <<>>

\* ---- category references (SpecFetch)
Started(call) == call.pc # "idle"
Untouched(call) ==
    /\ call.reqs = <<>>
    /\ fileCache = CacheUndefined
    /\ disk.exists = call.diskExisted /\ disk.map = EmptyMap
RejectedInvalid(call) ==
    call.pc = "done" /\ call.outcome = "rejected" /\ call.error = "InvalidArgument"

\* C10: a category reference that is an object lacking url, or that is
\* neither an object nor an integer (null, undefined, a string, a boolean,
\* NaN, a non-integer number), makes getFiles fail with an invalid-argument
\* error, with no request made and no cache modified.
C10_MalformedCategoryRejected ==
    (Started(Call) /\ Call.cat.kind \notin {"obj", "int", "zero"})
    => RejectedInvalid(Call) /\ Untouched(Call)

\* C10, as the code has it: an object lacking url, a non-empty string and
\* true are rejected with an invalid-argument error; a falsy reference
\* (null, undefined, the empty string, false, NaN) resolves with the empty
\* list; in both cases no request is made and no cache is modified.  A
\* non-integer number is taken as a category id and is not rejected.
C10_MalformedCategoryHandled ==
    /\ (Started(Call) /\ Call.cat.kind \in {"objNoUrl", "str", "true"})
       => RejectedInvalid(Call) /\ Untouched(Call)
    /\ (Started(Call) /\ Call.cat.kind \in {"null", "undefined", "emptystr", "false", "nan"})
       => /\ Call.pc = "done" /\ Call.outcome = "resolved" /\ Call.result = <<>>
          /\ Untouched(Call)
    /\ (Started(Call) /\ Call.cat.kind = "float")
       => Call.error # "InvalidArgument"

\* getFiles of a non-empty string was rejected
C10_Witness ==
    Call.cat.kind = "str" /\ RejectedInvalid(Call) /\ Untouched(Call)

\* ---- the wait answer (SpecV4)
\* C8: a "You must wait N seconds" answer schedules one retry of the
\* request, not earlier than N * 1000 ms later, and does not end the call.
C8_WaitAndRetry ==
    v4.waits >= 1
    => /\ v4.retries = 1
       /\ v4.delayMs >= v4.waitSecs * 1000
       /\ v4.error # "TypeError"

\* C9: the request is retried at most once, and a wait answer that is not
\* followed by a retry ends the call with a failure.
C9_WaitRetryBounded ==
    /\ v4.retries <= 1
    /\ v4.attempts <= 2
    /\ (v4.waits > v4.retries => v4.pc = "done" /\ v4.outcome = "rejected")

\* the request was answered with the wait page and the call has ended
C9_Witness ==
    v4.waits = 1 /\ v4.waitSecs = 5 /\ v4.pc = "done" /\ v4.outcome = "rejected"

\* ---- the category cache (SpecCat)
\* C11: a getCategories call without forceRefresh, made while the category
\* artifact exists, makes no request and returns the categories the
\* artifact holds.
C11_CategoriesFromArtifact ==
    (gc.pc = "done" /\ ~gc.force /\ gc.diskExisted)
    => /\ gc.requests = 0
       /\ gc.outcome = "resolved"
       /\ gc.result = catDisk.list

\* ---- cached reads (SpecCached)
\* what a load of category c yields: the collection in memory when there
\* is one, else the one in the artifact
CachedRecords(c) ==
    IF fileCache.loaded /\ fileCache.map[c].present THEN fileCache.map[c].files
    ELSE IF disk.exists THEN disk.map[c].files
    ELSE <<>>

C13_ReloginOnce ==
    (dl.logins >= 1 /\ dl.pc \notin {"login", "done"})
    => dl.logins = 1 /\ dl.overviews = 2

\* the IPS4 _getDownloadUrl (SpecV4): one login at most, after it one more
\* request of the overview page, and the link taken from that page
V4ReloginOnce ==
    /\ v4.logins <= 1
    /\ (v4.logins = 1 /\ v4.pc \notin {"login", "done"}) => v4.overviews = 2
    /\ (v4.logins = 1 /\ v4.outcome = "resolved") => v4.overviews = 2 /\ v4.linkFrom = 2
    /\ (v4.logins = 0 /\ v4.outcome = "resolved" /\ v4.url = "link") => v4.linkFrom = 1

\* ---- download of an array (SpecBatch)
InFlight(k) == batch.phase[k] \in {"resolving", "streaming"}

\* C14: of the records of an array given to download, at most one has a
\* request or a stream in flight, and a record's resolution is not started
\* before the stream of the record before it has been written.
C14_BatchSequential ==
    /\ \A j, k \in 1..Len(batch.ids) : InFlight(j) /\ InFlight(k) => j = k
    /\ \A k \in 2..Len(batch.ids) :
          batch.phase[k] # "waiting" => batch.phase[k - 1] = "done"

\* the second record of an array is streaming
C14_Witness ==
    Len(batch.ids) = 2 /\ batch.phase = <<"done", "streaming">>

\* ---- one download (SpecResolve)
Succeeded(call) == call.pc = "done" /\ call.outcome = "resolved"
Failed(call) == call.pc = "done" /\ call.outcome = "rejected"

\* C15: no step of a download call other than its successful end changes
\* the artifact: not a step that fails the call, and not a step taken
\* while the stream is being written.
C15_FailedDownloadKeepsArtifact ==
    [][(dl' # dl /\ ~Succeeded(dl')) => disk' = disk]_vars

\* a download failed while its stream was being written
C15_Witness ==
    Failed(dl) /\ dl.error = "StreamError" /\ dl.wrote

\* C16: a record that has a filename, in memory or in the artifact, is the
\* record of a download whose stream was written to the end.
C16_FilenameAfterDownload ==
    \A c \in CatIds :
        /\ \A k \in 1..Len(Stored(c)) :
              Stored(c)[k].filename # "undef" => Succeeded(dl) /\ dl.id = Stored(c)[k].id
        /\ \A k \in 1..Len(Persisted(c)) :
              Persisted(c)[k].filename # "undef" => Succeeded(dl) /\ dl.id = Persisted(c)[k].id

V4TextualFailureTerminal ==
    v4.error \in {"QuotaExceeded", "ConcurrencyLimit", "UnknownResponse"}
    => /\ Failed(v4) /\ v4.attempts = 1 /\ v4.retries = 0
       /\ v4.rec.filename = "undef"
       /\ v4.debugDump = (v4.error = "UnknownResponse")

\* a download whose stream failed has left its filename on the record
C16_FilenameAfterFailure ==
    /\ Failed(dl) /\ dl.error = "StreamError"
    /\ CachedFile(fileCache, dl.cat, dl.id).filename # "undef"

Word1(q) ==
    LET c == SelectSeq(q, Kept)
    IN  SubSeq(c, 1, CHOOSE n \in 0..Len(c) :
                         /\ \A k \in 1..n : c[k] \notin WhiteSpace
                         /\ n = Len(c) \/ c[n + 1] \in WhiteSpace)
Word2(q) ==
    LET c == SelectSeq(q, Kept)
    IN  SubSeq(c, (CHOOSE n \in 1..(Len(c) + 1) :
                         /\ \A k \in n..Len(c) : c[k] \notin WhiteSpace
                         /\ n = 1 \/ c[n - 1] \in WhiteSpace), Len(c))
\* the word stands in the text at position i, whatever the case
Occurs(w, text, i) ==
    /\ i + Len(w) - 1 <= Len(text)
    /\ \A k \in 1..Len(w) : Lower(text[i + k - 1]) = Lower(w[k])
FollowedBy(text, w1, w2) ==
    \E i, j \in 1..(Len(text) + 1) :
        Occurs(w1, text, i) /\ j >= i + Len(w1) /\ Occurs(w2, text, j)
FollowedOnLine(text, w1, w2) ==
    \E i, j \in 1..(Len(text) + 1) :
        /\ Occurs(w1, text, i) /\ j >= i + Len(w1) /\ Occurs(w2, text, j)
        /\ \A k \in (i + Len(w1))..(j - 1) : text[k] \notin LineTerminators

\* C19 as stated: the matcher of a two-word query accepts a file exactly when
\* its title or its description holds the first word followed, after any
\* characters, by the second word, whatever the case; "fun pics" accepts the
\* title "Funny Pictures" and rejects "Serious Documents".
C19_FuzzyMatch ==
    mt.pc = "done" =>
        /\ mt.accepted <=>
               \/ FollowedBy(mt.title, Word1(mt.query), Word2(mt.query))
               \/ FollowedBy(mt.description, Word1(mt.query), Word2(mt.query))
        /\ mt.query = FunPics /\ mt.title = FunnyPictures => mt.accepted
        /\ mt.query = FunPics /\ mt.title = SeriousDocuments /\ mt.description = <<>>
               => ~mt.accepted

\* C19, amended: the characters between the two words are any characters
\* other than line terminators; "fun pics" accepts the title "Funny Pics",
\* and rejects the titles "Funny Pictures" and "Serious Documents" when the
\* description does not match either.
C19_FuzzyMatchOnLine ==
    mt.pc = "done" =>
        /\ mt.accepted <=>
               \/ FollowedOnLine(mt.title, Word1(mt.query), Word2(mt.query))
               \/ FollowedOnLine(mt.description, Word1(mt.query), Word2(mt.query))
        /\ mt.query = FunPics /\ mt.title = FunnyPics => mt.accepted
        /\ mt.query = FunPics /\ mt.title \in {FunnyPictures, SeriousDocuments}
               /\ mt.description = <<>> => ~mt.accepted

C19_Witness ==
    /\ mt.pc = "done" /\ mt.accepted
    /\ mt.query = FunPics /\ mt.title = FunnyPics /\ mt.description = <<>>

\* ---- findFile and findFiles (SpecFind)
\* the collection of the category the call was made for, in stored order
StoredFor(call) == IF CatVerdict(call.cat) = "ok" THEN CachedRecords(call.cat.id) ELSE <<>>
AcceptedAt(files, query) == {k \in 1..Len(files) : Accepts(query, files[k])}
NthOf(S, n) == CHOOSE k \in S : Cardinality({j \in S : j < k}) = n - 1

\* C20: findFile resolves with the first record of the category's stored
\* collection that the matcher accepts, or with nothing when it accepts none;
\* findFiles resolves with all the accepted records and no other, in stored
\* order.
C20_FindInStoredOrder ==
    [][find' # find =>
          LET files == StoredFor(gf[1])
              at == AcceptedAt(files, find'.query)
          IN  /\ find'.kind = "findFile" =>
                    IF at = {} THEN find'.result = <<>>
                    ELSE find'.result = <<files[NthOf(at, 1)]>>
              /\ find'.kind = "findFiles" =>
                    /\ Len(find'.result) = Cardinality(at)
                    /\ \A n \in 1..Cardinality(at) : find'.result[n] = files[NthOf(at, n)]
      ]_vars

C20_Witness ==
    /\ find.kind = "findFile" /\ find.query = FunPics
    /\ Len(StoredFor(gf[1])) = 2
    /\ ~Accepts(find.query, StoredFor(gf[1])[1])
    /\ find.result = <<StoredFor(gf[1])[2]>>

\* ---- the path written (SpecPath)
DirectChild(path, folder) ==
    Len(path) = Len(folder) + 1 /\ SubSeq(path, 1, Len(folder)) = folder

\* C21: whatever the content-disposition header of the response, the path
\* opened for writing is a direct child of the destination folder.
C21_WrittenInsideDestination ==
    wr.pc = "done" => DirectChild(wr.dest, wr.destFolder)

\* a quoted name with a path separator is written outside the destination
\* folder
C21_QuotedNameEscapes ==
    /\ wr.pc = "done"
    /\ wr.header = QuotedKey \o wr.filename \o <<Quote>>
    /\ \E k \in 1..Len(wr.filename) : wr.filename[k] = "/"
    /\ \/ Len(wr.dest) < Len(wr.destFolder)
       \/ SubSeq(wr.dest, 1, Len(wr.destFolder)) # wr.destFolder

\* ---- the file chosen on the confirmation page (SpecPick)
\* C22: when the confirmation page offers several files and the call names
\* one of them, the link requested next is the link of the file of that name.
C22_RequestedFilePicked ==
    (/\ dl.picked # 0 /\ Len(dl.listed) > 1
     /\ \E k \in 1..Len(dl.listed) : dl.listed[k] = dl.wanted)
        => dl.listed[dl.picked] = dl.wanted

\* the call names the second file of the page and the first one is requested
C22_FirstFilePicked ==
    /\ dl.pc = "confirm2" /\ Len(dl.listed) = 2
    /\ dl.listed[2] = dl.wanted /\ dl.picked = 1

\* ---- a board index without categories (SpecCat)
\* C23: a getCategories call that requested the board index and found no
\* category anchor on it fails; no refresh resolves with an empty list.
C23_NoEmptyRefresh ==
    ~(gc.pc = "done" /\ gc.requests > 0 /\ gc.outcome = "resolved" /\ gc.result = <<>>)

\* the empty list of such a refresh is also what the artifact holds afterwards
C23_EmptyListSaved ==
    /\ gc.pc = "done" /\ gc.requests > 0 /\ gc.outcome = "resolved" /\ gc.result = <<>>
    /\ catDisk = [exists |-> TRUE, list |-> <<>>]

\* ---- the delay between pages (SpecDelay)
\* the window the caller asked for: the values given, the defaults for those
\* not given
WindowMin == IF dly.given[1] = NotGiven THEN DefaultMinDelay ELSE dly.given[1]
WindowMax == IF dly.given[2] = NotGiven THEN DefaultMaxDelay ELSE dly.given[2]

\* C24: for every minDelay <= maxDelay the caller gives, 0 included, the
\* delay chosen is an integer of minDelay..maxDelay; a default stands in only
\* for a value that was not given.
C24_DelayInWindow ==
    (dly.pc = "done" /\ WindowMin <= WindowMax)
        => dly.delay \in WindowMin..WindowMax

\* minDelay = 0 and maxDelay = 1 given, and a delay of 500 ms chosen
C24_ZeroReplacedByDefault ==
    dly.pc = "done" /\ dly.given = <<0, 1>> /\ dly.delay = DefaultMinDelay

\* every delay lies between the two values the engine works with, in
\* either order
C24_DelayBetweenEffective ==
    dly.pc = "done" =>
        \/ dly.delay \in dly.minDelay..dly.maxDelay
        \/ dly.delay \in (dly.maxDelay + 1)..dly.minDelay

\* ---- a category given by its id (SpecById)
\* a call with a bare id whose category has no cached record
ByIdOnEmpty(call) ==
    call.pc # "idle" /\ call.cat.kind = "int" /\ call.before = <<>>

\* what such a call does when it goes the way of a call with the category
\* object: it requests page 1 of the listing of that id, and when it resolves
\* the records fetched are the collection cached and saved under that id
FetchesAndCaches(call) ==
    /\ call.reqs # <<>> /\ call.listing = call.cat.id
    /\ (call.pc = "done" /\ call.outcome = "resolved") =>
           /\ Bare(Stored(call.cat.id)) = Bare(Flatten(call.pages))
           /\ Bare(Persisted(call.cat.id)) = Bare(Flatten(call.pages))

\* C25: a getFiles call with a bare integer id, on a category without cached
\* records, requests the listing of the category of that id and caches the
\* records fetched under that id.
C25_IntegerIdFetches ==
    ByIdOnEmpty(Call) => FetchesAndCaches(Call)

\* on IPS4 the call is rejected before any request
C25_IntegerIdRejectedOnIPS4 ==
    /\ ByIdOnEmpty(Call) /\ Call.engine = "ips4"
    /\ Call.pc = "done" /\ Call.outcome = "rejected" /\ Call.error = "TypeError"
    /\ Call.reqs = <<>>

\* on the base engine and IPS3 the call goes the way of the object
BaseIntegerIdFetches ==
    (ByIdOnEmpty(Call) /\ Call.engine = "ips3") => FetchesAndCaches(Call)

\* ---- login (SpecLogin)
\* C26: login resolves with true exactly when it posted the credentials, and
\* with false exactly when the session was valid, in which case it posted
\* nothing.
C26_LoginTellsWhetherPerformed ==
    (lg.pc = "done" /\ lg.outcome = "resolved")
        => /\ lg.value \in {"true", "false"}
           /\ lg.value = "true" <=> lg.posted
           /\ lg.value = "false" <=> ~lg.posted

\* _login of src/index.js resolves with undefined after it posted
C26_LoginResolvesUndefined ==
    /\ lg.pc = "done" /\ lg.outcome = "resolved" /\ lg.impl = "index"
    /\ lg.posted /\ lg.value = "undefined"

\* the login method of the IPS4 class answers as stated
IPS4LoginTellsWhetherPerformed ==
    (lg.pc = "done" /\ lg.outcome = "resolved" /\ lg.impl = "ips4")
        => /\ lg.value = "true" <=> lg.posted
           /\ lg.value = "false" <=> ~lg.posted

\* ---- textual responses (SpecResolve)
\* C27: a response is handed to _streamFile, and a filename recorded, only
\* when it had status 200 and a content-disposition header; after a textual
\* response, one with an empty body included, nothing is written and the
\* record's filename is not assigned.
C27_OnlyBinaryStreamed ==
    dl.answer \notin {"none", "null"} => (~dl.wrote /\ dl.filename = "undef")

\* a textual response with an empty body: the record's filename is null
C27_EmptyBodySetsFilename ==
    /\ dl.pc = "done" /\ dl.answer = "empty" /\ dl.error = "TypeError"
    /\ CachedFile(fileCache, dl.cat, dl.id).filename = "null"

\* nothing is written to the destination folder after a textual response
TextualNeverWritten ==
    dl.answer \notin {"none", "null"} => ~dl.wrote

\* ---- the stored order after a refresh (SpecMerge)
\* the positions of the cached records whose id the fetch did not bring
KeptAt(call) ==
    {k \in 1..Len(call.before) : call.before[k].id \notin IdsOf(call.items)}

\* C28: after a refresh merged into a non-empty cache, the cached records
\* whose id was not fetched come first, in the order they had, and the
\* fetched records follow in fetch order; a record fetched again is
\* therefore at the end.
C28_MergeOrder ==
    (Refreshed(Call) /\ Call.before # <<>>)
        => LET kept == KeptAt(Call)
               n == Cardinality(kept)
               stored == Bare(Stored(Call.cat.id))
           IN  /\ Len(stored) = n + Len(Call.items)
               /\ \A m \in 1..n : stored[m] = Bare(Call.before)[NthOf(kept, m)]
               /\ \A j \in 1..Len(Call.items) : stored[n + j] = Bare(Call.items)[j]
               /\ Bare(Call.result) = stored
               /\ Bare(Persisted(Call.cat.id)) = stored

\* the first of two cached records is fetched again and is now the last
C28_Witness ==
    /\ Refreshed(Call) /\ Len(Call.before) = 2 /\ Len(Call.items) = 1
    /\ Call.items[1].id = Call.before[1].id /\ Call.before[2].id # Call.before[1].id
    /\ Stored(Call.cat.id)[2].id = Call.before[1].id
    /\ Stored(Call.cat.id)[1].id = Call.before[2].id

\* ---- queries of several words (SpecWords)
\* the words of a query, without the characters the search drops
RECURSIVE SplitWords(_)
SplitWords(t) ==
    IF t = <<>> THEN <<>>
    ELSE IF Head(t) \in WhiteSpace THEN SplitWords(Tail(t))
    ELSE LET n == CHOOSE k \in 1..Len(t) :
                      /\ \A j \in 1..k : t[j] \notin WhiteSpace
                      /\ k = Len(t) \/ t[k + 1] \in WhiteSpace
         IN  <<SubSeq(t, 1, n)>> \o SplitWords(SubSeq(t, n + 1, Len(t)))
WordsOf(q) == SplitWords(SelectSeq(q, Kept))
\* the text holds the words in that order from position from on, whatever
\* stands between them
RECURSIVE InOrder(_, _, _)
InOrder(text, words, from) ==
    IF words = <<>> THEN TRUE
    ELSE \E i \in from..Len(text) :
             Occurs(Head(words), text, i) /\ InOrder(text, Tail(words), i + Len(Head(words)))

\* C29: every whitespace run of a query stands for any characters: a query
\* of three or more words accepts every title that holds the words in that
\* order, whatever stands between them.
C29_EveryRunIsWildcard ==
    (mt.pc = "done" /\ Len(WordsOf(mt.query)) >= 3 /\ InOrder(mt.title, WordsOf(mt.query), 1))
        => mt.accepted

\* the query "a b c" rejects the title "a-x-b-x-c"
C29_SecondRunLiteral ==
    /\ mt.pc = "done" /\ ~mt.accepted
    /\ mt.query = <<"a", " ", "b", " ", "c">>
    /\ mt.title = <<"a", "-", "x", "-", "b", "-", "x", "-", "c">>

\* what the expression of a query of three words accepts: the first word,
\* any characters, then the rest of the query as it is written
FirstRunOnlyIsWildcard ==
    (mt.pc = "done" /\ mt.query = <<"a", " ", "b", " ", "c">>)
        => (mt.accepted <=>
               \E i, j \in 1..Len(mt.title) :
                   /\ Occurs(<<"a">>, mt.title, i) /\ j > i
                   /\ Occurs(<<"b", " ", "c">>, mt.title, j))

\* C30: a page whose indicator "X of Y" is absent or cannot be read is taken
\* for the only page of the category: it is the last page the fetch
\* requests, whichever page it is.
C30_NoIndicatorEndsFetch ==
    \A k \in 1..Len(Call.shown) :
        Call.shown[k] \in NoIndicators
            => /\ Call.totals[k] = 1
               /\ k = Len(Call.shown)
               /\ Len(Call.reqs) = k
               /\ Call.pc = "done"
               /\ Call.inflight = 0

\* the second page of a full fetch shows no indicator and the fetch ends
C30_Witness ==
    /\ Call.pc = "done" /\ Call.outcome = "resolved" /\ ~Call.first
    /\ Len(Call.shown) = 2
    /\ Call.shown[1] \in ReadIndicators
    /\ Call.shown[2] \in NoIndicators
    /\ Call.reqs = <<1, 2>>

\* ---- the first download response (SpecPick)
\* C31: a first download response that is a page of text with a status
\* other than 200 ends the download with a status error: the page is not
\* parsed for a link and no second download request is made.
C31_StatusErrorBeforeParse ==
    [][\A r \in Responses, listed \in ListedFiles :
          (/\ r.status # "200" /\ r.body # "empty"
           /\ ConfirmListResponse(r, listed))
              => /\ dl'.pc = "done" /\ dl'.outcome = "rejected"
                 /\ dl'.error = "StatusError"
                 /\ dl'.requests = dl.requests
                 /\ dl'.listed = <<>> /\ dl'.picked = 0
                 /\ UNCHANGED <<fileCache, disk, destFiles>>]_vars

\* a confirmation page that came with another status ended the download
\* after one download request
C31_Witness ==
    /\ dl.pc = "done" /\ dl.error = "StatusError"
    /\ dl.answer = "list" /\ dl.requests = 1

\* ---- the file that is fetched when none is named (SpecPick)
\* C32: when the confirmation page lists several files and the call names
\* none, the link requested next is that of the first file of the page; a
\* record takes at most two download requests, and a second response that
\* is text ends the resolution in failure.
C32_FirstLinkAtMostTwoRequests ==
    /\ dl.requests <= 2
    /\ (dl.wanted = "undef" /\ Len(dl.listed) > 1)
           => /\ dl.picked = 1
              /\ dl.requests = 2
    /\ (dl.pc = "done" /\ dl.requests = 2 /\ dl.answer # "null")
           => dl.outcome = "rejected"

\* a page of two files, none named: the first link was requested and the
\* page of text that came back ended the call
C32_Witness ==
    /\ dl.pc = "done" /\ dl.outcome = "rejected" /\ dl.requests = 2
    /\ dl.wanted = "undef" /\ Len(dl.listed) = 2 /\ dl.picked = 1
    /\ dl.answer \in {"quota", "concurrent", "other", "list"}

\* ---- an overview page without a download link (SpecResolve)
\* C33: when the overview page of a record has no download link, the
\* resolution fails there with an extraction error: no download request is
\* made and the description of the cached record is left as it was.
C33_NoLinkFailsUnchanged ==
    [][\A descr \in {"null", "blank", "full"} :
          OverviewResponse(descr, "some", FALSE, FALSE, "noWait")
              => /\ dl'.pc = "done" /\ dl'.outcome = "rejected"
                 /\ dl'.error = "NoDownloadButton"
                 /\ dl'.requests = 0
                 /\ CachedFile(fileCache', dl.cat, dl.id).description
                        = CachedFile(fileCache, dl.cat, dl.id).description]_vars

\* the page had no link: the call ended with the error of the request of an
\* undefined url, and the record took the description of the page
C33_DescriptionTakenWithoutLink ==
    /\ dl.pc = "done" /\ dl.outcome = "rejected" /\ dl.error = "RequestError"
    /\ dl.url = "undef" /\ dl.requests = 0
    /\ CachedFile(fileCache, dl.cat, dl.id).info = "some"
    /\ CachedFile(fileCache, dl.cat, dl.id).description = "full"
    /\ \A k \in 1..Len(disk.map[dl.cat].files) :
           disk.map[dl.cat].files[k].description # "full"

\* without a link no download request is made
NoLinkNoDownloadRequest == dl.url = "undef" => dl.requests = 0

\* IPS4: an overview page without a download button ends the resolution
\* with the extraction error and leaves the record as it was
V4NoLinkFailsUnchanged ==
    [][\A descr \in {"blank", "full"} :
          (V4OverviewResponse(FALSE, FALSE, descr) \/ V4ReOverviewResponse(FALSE, FALSE, descr))
              => /\ v4'.pc = "done" /\ v4'.outcome = "rejected"
                 /\ v4'.error = "NoDownloadButton"
                 /\ v4'.rec = v4.rec]_vars

\* ---- records that are not in the cache (SpecDetails)
\* the ids of the cached collection of a category: the one in memory, or
\* the one of the artifact while the category is not in memory
CachedIds(c) ==
    IF fileCache.loaded /\ fileCache.map[c].present
    THEN IdsOf(fileCache.map[c].files)
    ELSE IdsOf(disk.map[c].files)

\* C34: download and getFileDetails of a record whose id is not in the
\* cached collection of its category are rejected at once: no request is
\* made and the artifact is not written.
C34_UnknownRecordRejected ==
    [][\A c \in CatIds, i \in Ids :
          (/\ i \notin CachedIds(c)
           /\ \/ \E allFiles \in BOOLEAN : DownloadStart(c, i, allFiles)
              \/ GetFileDetails(c, i))
              => /\ dl'.pc = "done" /\ dl'.outcome = "rejected"
                 /\ dl'.error = "NotFromCache"
                 /\ dl'.overviews = 0 /\ dl'.requests = 0 /\ dl'.logins = 0
                 /\ disk' = disk]_vars

\* a call on a record of an id the artifact's collection does not hold was
\* rejected
C34_Witness ==
    /\ dl.pc = "done" /\ dl.error = "NotFromCache"
    /\ dl.overviews = 0 /\ dl.requests = 0
    /\ disk.exists /\ disk.map[dl.cat].files # <<>>
    /\ dl.id \notin IdsOf(disk.map[dl.cat].files)

C36_IdsNeverShrink ==
    [][\A c \in CatIds :
          /\ IdsOf(fileCache.map[c].files) \subseteq IdsOf(fileCache'.map[c].files)
          /\ IdsOf(disk.map[c].files) \subseteq IdsOf(disk'.map[c].files)]_vars

\* an id of the collection one refresh resolved with is no longer stored
\* after the refresh that overlapped it
C36_StoredIdRemoved ==
    /\ \A p \in Procs : Refreshed(gf[p])
    /\ gf[1].cat = gf[2].cat
    /\ \E p \in Procs : \E i \in IdsOf(gf[p].result) :
           /\ i \notin IdsOf(Stored(gf[p].cat.id))
           /\ i \notin IdsOf(Persisted(gf[p].cat.id))

\* calls made one after the other: a forced refresh of the first page only
\* ended whose fetch did not hold a record of the collection, and the
\* record is still stored
SequentialRefreshKeepsRecord ==
    /\ Call.pc = "done" /\ Call.outcome = "resolved"
    /\ Call.force /\ Call.first /\ Call.reqs = <<1>>
    /\ \E i \in IdsOf(Call.before) \ IdsOf(Call.items) :
           i \in IdsOf(Stored(Call.cat.id)) /\ i \in IdsOf(Persisted(Call.cat.id))

\* ---- an array of records whose download fails part way (SpecArray)
PersistedRecord(c, i) == disk.map[c].files[FirstIndex(disk.map[c].files, i)]

\* C37: when the download of an array fails at one record, the filename of
\* every earlier record whose stream completed is on that record in the
\* persisted cache.
C37_CompletedDownloadsPersisted ==
    (batch.pc = "done" /\ batch.outcome = "rejected")
        => \A j \in 1..Len(batch.ids) :
               batch.phase[j] = "done"
                   => /\ batch.ids[j] \in IdsOf(disk.map[dl.cat].files)
                      /\ PersistedRecord(dl.cat, batch.ids[j]).filename # "undef"

\* the first record of an array was written, the second failed: the
\* filename of the first is on the record in memory and not in the artifact
C37_FilenameNotPersisted ==
    /\ batch.pc = "done" /\ batch.outcome = "rejected"
    /\ batch.phase = <<"done", "failed">>
    /\ batch.ids[1] # batch.ids[2]
    /\ CachedFile(fileCache, dl.cat, batch.ids[1]).filename = "a.zip"
    /\ PersistedRecord(dl.cat, batch.ids[1]).filename = "undef"

\* the filenames of the records that were written are on the records in
\* memory
CompletedDownloadsInMemory ==
    (batch.pc = "done" /\ batch.outcome = "rejected")
        => \A j \in 1..Len(batch.ids) :
               batch.phase[j] = "done"
                   => CachedFile(fileCache, dl.cat, batch.ids[j]).filename # "undef"

\* ---- forced refreshes that overlap (SpecOverlap)
BothRefreshed ==
    /\ \A p \in Procs : Refreshed(gf[p]) /\ gf[p].force
    /\ gf[1].cat = gf[2].cat
    /\ \E p \in Procs : gf[p].overlaps

\* C38: when two forced refreshes of one category were in flight at the
\* same time and both have ended, the stored collection holds the records
\* of both fetches.
C38_NoLostUpdate ==
    BothRefreshed
        => \A p \in Procs :
               /\ IdsOf(gf[p].items) \subseteq IdsOf(Stored(gf[p].cat.id))
               /\ IdsOf(gf[p].items) \subseteq IdsOf(Persisted(gf[p].cat.id))

\* the two fetches brought different records and the collection holds the
\* record of one of them only
C38_FirstFetchLost ==
    /\ BothRefreshed
    /\ IdsOf(gf[1].items) # {} /\ IdsOf(gf[2].items) # {}
    /\ IdsOf(gf[1].items) \cap IdsOf(gf[2].items) = {}
    /\ \E p \in Procs :
           /\ IdsOf(Stored(gf[p].cat.id)) = IdsOf(gf[p].items)
           /\ IdsOf(Persisted(gf[p].cat.id)) = IdsOf(gf[p].items)

\* refreshes that do not overlap keep the records of both fetches
SequentialRefreshesKeepBoth ==
    (/\ \A p \in Procs : Refreshed(gf[p]) /\ gf[p].force
     /\ gf[1].cat = gf[2].cat
     /\ \A p \in Procs : ~gf[p].overlaps)
        => \A p \in Procs : IdsOf(gf[p].items) \subseteq IdsOf(Stored(gf[p].cat.id))

\* ---- a getFiles call that completes during a download (SpecReload)
\* a getFiles call that started and ended while the download was running,
\* and refreshed the category of the download or loaded a category that was
\* not in memory
ReloadedMeanwhile ==
    \E p \in Procs :
        /\ gf[p].during /\ gf[p].pc = "done" /\ gf[p].outcome = "resolved"
        /\ \/ gf[p].reqs # <<>> /\ gf[p].cat.id = dl.cat
           \/ gf[p].loadedDuring

\* C39: when such a getFiles call has completed during a download, the
\* cache that the download persists at its successful end holds the
\* filename of the download on the record.
C39_FilenameSurvivesReload ==
    [][(StreamClose /\ ReloadedMeanwhile)
          => /\ dl.id \in IdsOf(disk'.map[dl.cat].files)
             /\ disk'.map[dl.cat].files[FirstIndex(disk'.map[dl.cat].files, dl.id)].filename
                    = dl.filename]_vars

\* the download ended well after a refresh had fetched its record again:
\* the record of the cache, in memory and in the artifact, has no filename
C39_FilenameLostAfterRefresh ==
    /\ Succeeded(dl) /\ dl.filename = "a.zip" /\ ~dl.attached
    /\ ReloadedMeanwhile
    /\ CachedFile(fileCache, dl.cat, dl.id).filename = "undef"
    /\ PersistedRecord(dl.cat, dl.id).filename = "undef"

\* the filename survives a refresh whose fetch does not bring the record of
\* the download again
FilenameSurvivesOtherRecords ==
    [][(/\ StreamClose
        /\ \E p \in Procs :
               /\ gf[p].during /\ Refreshed(gf[p]) /\ gf[p].before # <<>>
               /\ dl.id \notin IdsOf(gf[p].items))
          => /\ dl.id \in IdsOf(disk'.map[dl.cat].files)
             /\ disk'.map[dl.cat].files[FirstIndex(disk'.map[dl.cat].files, dl.id)].filename
                    = dl.filename]_vars

\* ---- a category without cached records (SpecById)
\* C40: a getFiles call for a category whose cached collection is empty,
\* because there is none or because it holds no record, requests a page of
\* the listing, with or without forceRefresh.
C40_EmptyNeverServed ==
    (Call.pc # "idle" /\ CatVerdict(Call.cat) = "ok" /\ Call.before = <<>>)
        => Call.reqs # <<>>

\* IPS4, the category given by its id, nothing cached and no forceRefresh:
\* the call ended without a request
C40_EmptyNotFetchedOnIPS4 ==
    /\ Call.pc = "done" /\ CatVerdict(Call.cat) = "ok" /\ Call.before = <<>>
    /\ ~Call.force /\ Call.engine = "ips4" /\ Call.cat.kind = "int"
    /\ Call.reqs = <<>> /\ Call.inflight = 0 /\ Call.outcome = "rejected"

\* on the base engine and IPS3, and with a category object on IPS4, an
\* empty collection is never served from the cache
EmptyFetchedElsewhere ==
    (/\ Call.pc # "idle" /\ CatVerdict(Call.cat) = "ok" /\ Call.before = <<>>
     /\ (Call.engine = "ips3" \/ Call.cat.kind = "obj"))
        => Call.reqs # <<>>

====
